---- MODULE Spec2Model ----
(***************************************************************************)
(* Model of the execution engine of anterofit:                             *)
(*   - net/call.rs: Call / PanicGuard over a futures oneshot channel       *)
(*   - mpmc.rs + executor/threaded.rs: the condvar job queue and its       *)
(*     sentinel-respawned workers                                          *)
(*   - executor/single.rs: the SingleThread executor over std::sync::mpsc  *)
(* Three specifications share the variables: SpecCall, SpecMpmc and        *)
(* SpecSingle, each with a fair variant for the liveness properties.       *)
(***************************************************************************)
EXTENDS Integers, Sequences, FiniteSets, TLC

\* ------------------------------------------------------------------ bounds
NJobs == 3
NThreads == 2
MaxPanics == 1
MaxChans == 5
NCalls == 1
MaxPolls == 2
MaxCompletes == 2
NReqs == 2
MaxAdapters == 2
NIcpts == 2
MaxChain == 3
MaxSpurious == 1

Jobs == 1..NJobs
Threads == 1..NThreads
Chans == 1..MaxChans
CallJobs == 1..NCalls
ReqJobs == 1..NReqs
Handles == 1..MaxAdapters
Cells == 1..MaxAdapters
Icpts == 1..NIcpts

VARIABLES
    guard,      \* PanicGuard per job: head (0 = None), tx (Some?), live
    chan,       \* oneshot channel per job: done flag, data slot
    sent,       \* number of values the guard stored into the channel
    callState,  \* CallState per job: "Waiting" | "Immediate" | "Taken"
    immRes,     \* the Result held by CallState::Immediate
    jobpc,      \* what became of the closure holding the guard
    completes,  \* number of complete() calls made by the job body
    firstRes,   \* the result passed to the first complete()
    panicHead,  \* the head the guard held when a panic unwound it
    pollLog,    \* the results returned by poll_no_task(), in order
    blockSt,    \* "no" | "blocked" | "returned" : a thread in Call::block()
    blockRes    \* what block() returned

\* the job queue of mpmc.rs and the workers of executor/threaded.rs
VARIABLES
    queue,      \* Inner.queue: the jobs pushed and not yet popped
    closed,     \* Inner.closed
    mutex,      \* Inner.mutex: 0 when free, else the slot of its holder
    wpc,        \* where each worker thread is in recv() / exec()
    wjob,       \* the job a worker popped (0: none)
    gen,        \* how many times the Sentinel respawned each slot
    spc,        \* where each send(job) call is
    dpc,        \* where the drop of the Sender is: "live" | "notify" | "dropped"
    panics,     \* the jobs whose body panics
    recvd,      \* how many recv() calls returned each job
    runs,       \* how many times each job body was run
    ranBy       \* the worker threads <<slot, generation>> that ran each job

\* executor/single.rs: the Master, its std::sync::mpsc channels and workers
VARIABLES
    nch,        \* number of channels made by spawn_thread() so far
    chq,        \* the jobs buffered in each channel
    rx,         \* each channel's Receiver: "none" | "open" | "dropped"
    swpc,       \* the worker thread of each channel
    swjob,      \* the job that worker took last (0: none)
    cur,        \* Master.sender: the channel of the Sender in the SenderCell
    wlock,      \* the writer of the RwLock around the SenderCell (0: none)
    respawning, \* Master.respawning
    epc,        \* where each execute(job) call is
    has,        \* the Sender clone an execute() call holds (0: none)
    newtx,      \* the Sender made by spawn_thread() inside respawn()
    deliveredTo,\* the channel that accepted each job (0: none)
    lostTo,     \* the job whose panic destroyed the channel holding a job
    deadBefore, \* the panicked jobs whose worker was dead when execute began
    retried,    \* whether a send() of this execute() call was refused
    failedOn    \* the channel whose Sender refused this call's last failed send

\* net/request.rs: the Request a caller holds and the stages of its job
VARIABLES
    rpc,        \* what the caller did with each Request / Call
    stageLog,   \* the stages of exec_request invoked so far: <<stage, thread>>
    bodyRes     \* the Result the stages of the job body produced (NoRes: none yet)

\* adapter.rs: the Adapter handles and the Adapter_ allocations behind them
VARIABLES
    adp,        \* the Arc<Adapter_> each Adapter handle points to (0: no handle)
    cell,       \* each Adapter_ allocation: strong count and interceptor field
    modified    \* the handle whose interceptor_mut() acted last (0: none)

\* the wakeups of Receiver::wait that no notify caused
VARIABLES
    spurious    \* number of wakeups so far that no notify_one/notify_all caused

\* net/intercept.rs: the interceptor of one adapter, from its builder on
VARIABLES
    icur,       \* the interceptor the builder holds / the adapter's field
    built,      \* whether AdapterBuilder::build() was called
    declared,   \* the interceptors in the order the calls so far declared them
    lastOp,     \* the last call made on the builder or the adapter
    icptLog     \* the interceptors the last request invoked, in order

guardVars == <<guard, chan, sent, jobpc, completes, firstRes, panicHead>>
clientVars == <<callState, immRes, pollLog, blockSt, blockRes>>
callVars == <<guardVars, clientVars>>
jobVars == <<panics, recvd, runs, ranBy>>
mpmcVars == <<queue, closed, mutex, wpc, wjob, gen, spc, dpc>>
masterVars == <<cur, wlock, respawning, epc, has, newtx>>
chanVars == <<nch, chq, rx, swpc, swjob>>
ghostVars == <<deliveredTo, lostTo, deadBefore, retried, failedOn>>
singleVars == <<masterVars, chanVars, ghostVars>>
reqVars == <<rpc, stageLog, bodyRes>>
adapterVars == <<adp, cell, modified>>
wakeVars == <<spurious>>
chainVars == <<icur, built, declared, lastOp, icptLog>>
auxVars == <<adapterVars, wakeVars, chainVars>>
execVars == <<jobVars, mpmcVars, singleVars, reqVars, auxVars>>

vars == <<callVars, execVars>>

\* ------------------------------------------------------- results (::Result)
NoRes == [kind |-> "none", val |-> 0]
OkRes(v) == [kind |-> "Ok", val |-> v]
StageErr == [kind |-> "Stage", val |-> 0]
RequestPanicked(h) == [kind |-> "RequestPanicked", val |-> h]
ErrPanic == [kind |-> "Panic", val |-> 0]
ErrResultTaken == [kind |-> "ResultTaken", val |-> 0]
NotReady == [kind |-> "NotReady", val |-> 0]

\* --------------------------------------------------------------- call.rs
\* oneshot(head): a fresh guard and an empty channel
NewGuard(h) == [head |-> h, tx |-> TRUE, live |-> TRUE]
NewChan == [done |-> FALSE, data |-> NoRes]

\* complete() that peeks at tx instead of taking it: the guard stays armed
completeNoTake(g, c, n, res) ==
    IF g.tx
    THEN [guard |-> g, chan |-> [done |-> TRUE, data |-> res], sent |-> n + 1]
    ELSE [guard |-> g, chan |-> c, sent |-> n]

\* PanicGuard::complete: tx.take() and, when it was Some, tx.complete(res)
complete(g, c, n, res) ==
    IF g.tx
    THEN [guard |-> [g EXCEPT !.tx = FALSE],
          chan |-> [done |-> TRUE, data |-> res],
          sent |-> n + 1]
    ELSE [guard |-> g, chan |-> c, sent |-> n]

\* a destructor that sends the head but leaks an unsent tx (no cancellation)
DropGuardNoCancel(g, c, n) ==
    LET r == IF g.head # 0
             THEN complete([g EXCEPT !.head = 0], c, n, RequestPanicked(g.head))
             ELSE [guard |-> g, chan |-> c, sent |-> n]
    IN [guard |-> [r.guard EXCEPT !.tx = FALSE, !.live = FALSE],
        chan |-> r.chan,
        sent |-> r.sent]

\* a destructor that ignores the saved head and only drops tx
DropGuardNoHead(g, c, n) ==
    [guard |-> [g EXCEPT !.head = 0, !.tx = FALSE, !.live = FALSE],
     chan |-> [c EXCEPT !.done = TRUE],
     sent |-> n]

\* a destructor that sends a RequestPanicked even when it holds no head
DropGuardAlwaysSends(g, c, n) ==
    LET r == complete([g EXCEPT !.head = 0], c, n, RequestPanicked(g.head))
    IN [guard |-> [r.guard EXCEPT !.tx = FALSE, !.live = FALSE],
        chan |-> [r.chan EXCEPT !.done = TRUE],
        sent |-> r.sent]

\* Drop for PanicGuard: head.take(), complete(Err(RequestPanicked(head)));
\* then the fields are dropped, and a Complete dropped unsent cancels.
DropGuard(g, c, n) ==
    LET r == IF g.head # 0
             THEN complete([g EXCEPT !.head = 0], c, n, RequestPanicked(g.head))
             ELSE [guard |-> g, chan |-> c, sent |-> n]
    IN [guard |-> [r.guard EXCEPT !.tx = FALSE, !.live = FALSE],
        chan |-> [r.chan EXCEPT !.done = TRUE],
        sent |-> r.sent]

\* a poll that gives up the channel when nothing is there yet
OneshotPollClosing(c) ==
    IF ~c.done THEN [p |-> "NotReady", data |-> NoRes,
                     chan |-> [c EXCEPT !.done = TRUE]]
    ELSE IF c.data # NoRes
         THEN [p |-> "Ready", data |-> c.data, chan |-> [c EXCEPT !.data = NoRes]]
         ELSE [p |-> "Canceled", data |-> NoRes, chan |-> c]

\* Oneshot::poll: NotReady until the sender completed or went away, then the
\* stored value once, and Canceled when the slot is empty.
OneshotPoll(c) ==
    IF ~c.done THEN [p |-> "NotReady", data |-> NoRes, chan |-> c]
    ELSE IF c.data # NoRes
         THEN [p |-> "Ready", data |-> c.data, chan |-> [c EXCEPT !.data = NoRes]]
         ELSE [p |-> "Canceled", data |-> NoRes, chan |-> c]

\* a map_poll that reports every Err it finds as Error::Panic
map_pollLossy(raw) ==
    IF raw.p = "Canceled" THEN ErrPanic
    ELSE IF raw.p = "NotReady" THEN NotReady
    ELSE IF raw.data.kind = "Ok" THEN raw.data
    ELSE ErrPanic

\* map_poll: try!(poll) turns Canceled into Error::Panic; Ready(res) is
\* flattened with try!(val)
map_poll(raw) ==
    IF raw.p = "Canceled" THEN ErrPanic
    ELSE IF raw.p = "NotReady" THEN NotReady
    ELSE raw.data

\* a poll_by that puts the result back after handing it out
poll_byRestore(st, imm, c) ==
    IF st = "Waiting"
    THEN LET raw == OneshotPoll(c)
         IN [state |-> "Waiting", chan |-> raw.chan, res |-> map_poll(raw)]
    ELSE IF st = "Taken"
    THEN [state |-> "Immediate", chan |-> c, res |-> ErrResultTaken]
    ELSE [state |-> "Taken", chan |-> c, res |-> imm]

\* Call::poll_by: the new CallState, the new channel and the Poll returned
poll_by(st, imm, c) ==
    IF st = "Waiting"
    THEN LET raw == OneshotPoll(c)
         IN [state |-> "Waiting", chan |-> raw.chan, res |-> map_poll(raw)]
    ELSE IF st = "Taken"
    THEN [state |-> "Taken", chan |-> c, res |-> ErrResultTaken]
    ELSE [state |-> "Taken", chan |-> c, res |-> imm]

\* Call::result_taken
result_taken(st) == st = "Taken"

\* ------------------------------------------------ SpecCall: one Call/guard
\* The closure built by RequestBuilder::build owns the guard.  It is run
\* (and completes or panics) or dropped without being run.
JobResults(j) == {OkRes(j), StageErr}

\* call::immediate(res): no guard, no channel, no job
NoGuard == [head |-> 0, tx |-> FALSE, live |-> FALSE]

\* the (guard, Call) pairs of oneshot(None) / oneshot(Some(head)), and the
\* Calls of call::immediate(res)
NewCalls(j) ==
    {[guard |-> NewGuard(h), state |-> "Waiting", imm |-> NoRes, job |-> "held"] :
        h \in {0, 1}}
    \cup {[guard |-> NoGuard, state |-> "Immediate", imm |-> r, job |-> "none"] :
        r \in JobResults(j)}

\* the pair RequestBuilder::build makes: oneshot(Some(head))
BuiltCall == [guard |-> NewGuard(1), state |-> "Waiting", imm |-> NoRes,
              job |-> "held"]

InitCallVars(new) ==
    /\ guard = [j \in Jobs |-> new[j].guard]
    /\ callState = [j \in Jobs |-> new[j].state]
    /\ immRes = [j \in Jobs |-> new[j].imm]
    /\ jobpc = [j \in Jobs |-> new[j].job]
    /\ chan = [j \in Jobs |-> NewChan]
    /\ sent = [j \in Jobs |-> 0]
    /\ panicHead = [j \in Jobs |-> 0]
    /\ completes = [j \in Jobs |-> 0]
    /\ firstRes = [j \in Jobs |-> NoRes]
    /\ pollLog = [j \in Jobs |-> <<>>]
    /\ blockSt = [j \in Jobs |-> "no"]
    /\ blockRes = [j \in Jobs |-> NoRes]

\* channel(): an empty open queue; MultiThread::start: one worker per slot
InitMpmcVars ==
    /\ queue = <<>>
    /\ closed = FALSE
    /\ mutex = 0
    /\ wpc = [w \in Threads |-> "try_pop"]
    /\ wjob = [w \in Threads |-> 0]
    /\ gen = [w \in Threads |-> 0]
    /\ spc = [j \in Jobs |-> "idle"]
    /\ dpc = "live"

\* Master::new: SenderCell(spawn_thread()), respawning false
InitSingleVars ==
    /\ nch = 1
    /\ chq = [c \in Chans |-> <<>>]
    /\ rx = [c \in Chans |-> IF c = 1 THEN "open" ELSE "none"]
    /\ swpc = [c \in Chans |-> IF c = 1 THEN "recv" ELSE "none"]
    /\ swjob = [c \in Chans |-> 0]
    /\ cur = 1
    /\ wlock = 0
    /\ respawning = FALSE
    /\ epc = [j \in Jobs |-> "idle"]
    /\ has = [j \in Jobs |-> 0]
    /\ newtx = [j \in Jobs |-> 0]
    /\ deliveredTo = [j \in Jobs |-> 0]
    /\ lostTo = [j \in Jobs |-> 0]
    /\ deadBefore = [j \in Jobs |-> {}]
    /\ retried = [j \in Jobs |-> FALSE]
    /\ failedOn = [j \in Jobs |-> 0]

\* Request { exec, call }: nothing was executed yet, no stage was invoked
InitReqVars ==
    /\ rpc = [j \in Jobs |-> "new"]
    /\ stageLog = [j \in Jobs |-> <<>>]
    /\ bodyRes = [j \in Jobs |-> NoRes]

\* the choices of the jobs whose body panics
PanicChoices ==
    {f \in [Jobs -> BOOLEAN] : Cardinality({j \in Jobs : f[j]}) <= MaxPanics}

\* ---------------------------------------------------------------- adapter
\* net/intercept.rs: NoIntercept, and what a caller can pass as interceptor
NoIntercept == 0
IcptArgs == {NoIntercept} \cup Icpts

\* Option<Arc<Interceptor>>: `calls` is the order in which the wrapped
\* interceptors are invoked by intercept()
None == [some |-> FALSE, calls |-> <<>>]
Some(c) == [some |-> TRUE, calls |-> c]

\* the interceptors an interceptor value invokes: NoIntercept::intercept is
\* empty, any other atom invokes itself
Calls(i) == IF i = NoIntercept THEN <<>> ELSE <<i>>

\* Interceptor::into_opt_obj: Some(Arc::new(self)), overridden by NoIntercept
\* to return None
into_opt_obj(i) == IF i = NoIntercept THEN None ELSE Some(<<i>>)

\* a Chain whose intercept invokes self.1 before self.0
chainSwapped(a, b) == Some(b \o a)

\* Chain(a, b).into_opt_obj(): the default method, Some(Arc::new(chain));
\* Chain::intercept invokes self.0 then self.1
chain(a, b) == Some(a \o b)

\* Chain2(a, b, c): invokes self.0, self.1, self.2
chain2(a, b, c) == Some(a \o b \o c)

\* InterceptorMut::remove: *self.0 = None
remove == None

\* InterceptorMut::set: *self.0 = new.into_opt_obj()
set(new) == into_opt_obj(new)

\* InterceptorMut::chain_before: before.chain(current), or before alone
chain_before(current, before) ==
    IF current.some THEN chain(Calls(before), current.calls)
    ELSE into_opt_obj(before)

\* InterceptorMut::chain_after: current.chain(after), or after alone
chain_after(current, after) ==
    IF current.some THEN chain(current.calls, Calls(after))
    ELSE into_opt_obj(after)

\* InterceptorMut::chain_around: before.chain2(current, after), or
\* before.chain(after)
chain_around(current, before, after) ==
    IF current.some THEN chain2(Calls(before), current.calls, Calls(after))
    ELSE chain(Calls(before), Calls(after))

\* no call was made yet
NoOp == [op |-> "none", x |-> 0, y |-> 0]

\* AdapterBuilder::new: interceptor: NoIntercept
InitChainVars ==
    /\ icur = None
    /\ built = FALSE
    /\ declared = <<>>
    /\ lastOp = NoOp
    /\ icptLog = <<>>

\* an Adapter_ allocation nobody points to
FreeCell == [rc |-> 0, icpt |-> None]

\* AdapterBuilder::build: one Adapter whose Arc<Adapter_> holds
\* self.interceptor.into_opt_obj()
BuiltAdapter(i) ==
    /\ adp = [a \in Handles |-> IF a = 1 THEN 1 ELSE 0]
    /\ cell = [c \in Cells |-> IF c = 1 THEN [rc |-> 1, icpt |-> into_opt_obj(i)]
                               ELSE FreeCell]
    /\ modified = 0

\* AdapterBuilder::new: the builder starts with NoIntercept
InitAdapterVars == BuiltAdapter(NoIntercept)

\* no thread has parked yet
InitWakeVars == spurious = 0

InitJobVars ==
    /\ recvd = [j \in Jobs |-> 0]
    /\ runs = [j \in Jobs |-> 0]
    /\ ranBy = [j \in Jobs |-> {}]

InitCall ==
    /\ \E new \in [Jobs -> UNION {NewCalls(j) : j \in Jobs}] :
        /\ \A j \in CallJobs : new[j] \in NewCalls(j)
        /\ \A j \in Jobs \ CallJobs : new[j] = BuiltCall
        /\ InitCallVars(new)
    /\ panics = [j \in Jobs |-> FALSE]
    /\ InitJobVars
    /\ InitMpmcVars
    /\ InitSingleVars
    /\ InitReqVars
    /\ InitAdapterVars
    /\ InitWakeVars
    /\ InitChainVars

\* the job body starts running
JobStart(j) ==
    /\ jobpc[j] = "held"
    /\ jobpc' = [jobpc EXCEPT ![j] = "running"]
    /\ UNCHANGED <<guard, chan, sent, callState, immRes, completes, firstRes,
                   panicHead, pollLog, blockSt, blockRes>>
    /\ UNCHANGED execVars

\* exec_request: interceptor.intercept(guard.head_mut())
JobIntercept(j) ==
    /\ jobpc[j] = "running"
    /\ completes[j] = 0
    /\ guard[j].head = 1
    /\ guard' = [guard EXCEPT ![j].head = 2]
    /\ UNCHANGED <<chan, sent, callState, immRes, jobpc, completes, firstRes,
                   panicHead, pollLog, blockSt, blockRes>>
    /\ UNCHANGED execVars

\* guard.complete(res) in the job body
JobComplete(j, res) ==
    /\ jobpc[j] = "running"
    /\ completes[j] < MaxCompletes
    /\ LET r == complete(guard[j], chan[j], sent[j], res)
       IN /\ guard' = [guard EXCEPT ![j] = r.guard]
          /\ chan' = [chan EXCEPT ![j] = r.chan]
          /\ sent' = [sent EXCEPT ![j] = r.sent]
    /\ completes' = [completes EXCEPT ![j] = @ + 1]
    /\ firstRes' = [firstRes EXCEPT ![j] = IF completes[j] = 0 THEN res ELSE @]
    /\ UNCHANGED <<callState, immRes, jobpc, panicHead, pollLog, blockSt,
                   blockRes>>
    /\ UNCHANGED execVars

\* the closure returns after complete(): the guard goes out of scope
JobEnd(j) ==
    /\ jobpc[j] = "running"
    /\ completes[j] > 0
    /\ LET r == DropGuard(guard[j], chan[j], sent[j])
       IN /\ guard' = [guard EXCEPT ![j] = r.guard]
          /\ chan' = [chan EXCEPT ![j] = r.chan]
          /\ sent' = [sent EXCEPT ![j] = r.sent]
    /\ jobpc' = [jobpc EXCEPT ![j] = "finished"]
    /\ UNCHANGED <<callState, immRes, completes, firstRes, panicHead, pollLog,
                   blockSt, blockRes>>
    /\ UNCHANGED execVars

\* the job body panics: unwinding drops the guard
JobPanic(j) ==
    /\ jobpc[j] = "running"
    /\ LET r == DropGuard(guard[j], chan[j], sent[j])
       IN /\ guard' = [guard EXCEPT ![j] = r.guard]
          /\ chan' = [chan EXCEPT ![j] = r.chan]
          /\ sent' = [sent EXCEPT ![j] = r.sent]
    /\ jobpc' = [jobpc EXCEPT ![j] = "panicked"]
    /\ panicHead' = [panicHead EXCEPT ![j] = guard[j].head]
    /\ UNCHANGED <<callState, immRes, completes, firstRes, pollLog, blockSt,
                   blockRes>>
    /\ UNCHANGED execVars

\* the closure is dropped without ever being run
JobDropUnrun(j) ==
    /\ jobpc[j] = "held"
    /\ LET r == DropGuard(guard[j], chan[j], sent[j])
       IN /\ guard' = [guard EXCEPT ![j] = r.guard]
          /\ chan' = [chan EXCEPT ![j] = r.chan]
          /\ sent' = [sent EXCEPT ![j] = r.sent]
    /\ jobpc' = [jobpc EXCEPT ![j] = "dropped"]
    /\ UNCHANGED <<callState, immRes, completes, firstRes, panicHead, pollLog,
                   blockSt, blockRes>>
    /\ UNCHANGED execVars

\* Call::poll_no_task
PollNoTask(j) ==
    /\ blockSt[j] = "no"
    /\ Len(pollLog[j]) < MaxPolls
    /\ LET r == poll_by(callState[j], immRes[j], chan[j])
       IN /\ callState' = [callState EXCEPT ![j] = r.state]
          /\ chan' = [chan EXCEPT ![j] = r.chan]
          /\ pollLog' = [pollLog EXCEPT ![j] = Append(@, r.res)]
    /\ UNCHANGED <<guard, sent, immRes, jobpc, completes, firstRes, panicHead,
                   blockSt, blockRes>>
    /\ UNCHANGED execVars

\* Call::block: the thread enters Future::wait
BlockStart(j) ==
    /\ blockSt[j] = "no"
    /\ blockSt' = [blockSt EXCEPT ![j] = "blocked"]
    /\ UNCHANGED <<guard, chan, sent, callState, immRes, jobpc, completes,
                   firstRes, panicHead, pollLog, blockRes>>
    /\ UNCHANGED execVars

\* Future::wait returns as soon as a poll is not NotReady
BlockReturn(j) ==
    /\ blockSt[j] = "blocked"
    /\ LET r == poll_by(callState[j], immRes[j], chan[j])
       IN /\ r.res # NotReady
          /\ callState' = [callState EXCEPT ![j] = r.state]
          /\ chan' = [chan EXCEPT ![j] = r.chan]
          /\ blockRes' = [blockRes EXCEPT ![j] = r.res]
    /\ blockSt' = [blockSt EXCEPT ![j] = "returned"]
    /\ UNCHANGED <<guard, sent, immRes, jobpc, completes, firstRes, panicHead,
                   pollLog>>
    /\ UNCHANGED execVars

NextCall ==
    \E j \in CallJobs :
        \/ JobStart(j)
        \/ JobIntercept(j)
        \/ \E res \in JobResults(j) : JobComplete(j, res)
        \/ JobEnd(j)
        \/ JobPanic(j)
        \/ JobDropUnrun(j)
        \/ PollNoTask(j)
        \/ BlockStart(j)
        \/ BlockReturn(j)

SpecCall == InitCall /\ [][NextCall]_vars

FairSpecCall ==
    /\ SpecCall
    /\ \A j \in CallJobs : WF_vars(BlockReturn(j))

\* ------------------------------------- the job closure run by an executor
\* the closure of RequestBuilder::build runs to its end: guard.complete(res),
\* then the guard goes out of scope
BodyReturns(j, res) ==
    LET r1 == complete(guard[j], chan[j], sent[j], res)
        r == DropGuard(r1.guard, r1.chan, r1.sent)
    IN /\ guard' = [guard EXCEPT ![j] = r.guard]
       /\ chan' = [chan EXCEPT ![j] = r.chan]
       /\ sent' = [sent EXCEPT ![j] = r.sent]
       /\ jobpc' = [jobpc EXCEPT ![j] = "finished"]
       /\ completes' = [completes EXCEPT ![j] = @ + 1]
       /\ firstRes' = [firstRes EXCEPT ![j] = res]
       /\ UNCHANGED panicHead

\* the closure panics before complete(): unwinding drops the guard
BodyPanics(j) ==
    LET r == DropGuard(guard[j], chan[j], sent[j])
    IN /\ guard' = [guard EXCEPT ![j] = r.guard]
       /\ chan' = [chan EXCEPT ![j] = r.chan]
       /\ sent' = [sent EXCEPT ![j] = r.sent]
       /\ jobpc' = [jobpc EXCEPT ![j] = "panicked"]
       /\ panicHead' = [panicHead EXCEPT ![j] = guard[j].head]
       /\ UNCHANGED <<completes, firstRes>>

\* ---------------------------------- SpecMpmc: mpmc.rs + executor/threaded.rs
\* try_pop that returns the front job without unlinking it
TryPopKeep(q) == [val |-> IF q = <<>> THEN 0 ELSE Head(q), queue |-> q]

\* a try_pop that takes the job pushed last
TryPopLast(q) ==
    IF q = <<>> THEN [val |-> 0, queue |-> q]
    ELSE [val |-> q[Len(q)], queue |-> SubSeq(q, 1, Len(q) - 1)]

\* SegQueue::try_pop: the front job (0: None) and the rest
TryPop(q) ==
    IF q = <<>> THEN [val |-> 0, queue |-> q]
    ELSE [val |-> Head(q), queue |-> Tail(q)]

\* Condvar::notify_all: every thread parked on the condvar is woken
NotifyAll(pc) == [w \in Threads |-> IF pc[w] = "parked" THEN "woken" ELSE pc[w]]

\* a send that takes the mutex of the queue before it pushes
SendPushLocked(j) ==
    /\ spc[j] = "idle"
    /\ mutex = 0
    /\ queue' = Append(queue, j)
    /\ spc' = [spc EXCEPT ![j] = "notify"]
    /\ UNCHANGED <<closed, mutex, wpc, wjob, gen, dpc>>
    /\ UNCHANGED <<callVars, jobVars, singleVars, auxVars, reqVars>>

\* Sender::send, line 40: queue.push(exec)
SendPush(j) ==
    /\ spc[j] = "idle"
    /\ queue' = Append(queue, j)
    /\ spc' = [spc EXCEPT ![j] = "notify"]
    /\ UNCHANGED <<closed, mutex, wpc, wjob, gen, dpc>>
    /\ UNCHANGED <<callVars, jobVars, singleVars, auxVars, reqVars>>

\* Sender::send, line 41: cvar.notify_all(), the mutex is not taken
SendNotify(j) ==
    /\ spc[j] = "notify"
    /\ wpc' = NotifyAll(wpc)
    /\ spc' = [spc EXCEPT ![j] = "sent"]
    /\ UNCHANGED <<queue, closed, mutex, wjob, gen, dpc>>
    /\ UNCHANGED <<callVars, jobVars, singleVars, auxVars, reqVars>>

\* Receiver::recv, line 63: queue.try_pop()
RecvTryPop(w) ==
    /\ wpc[w] = "try_pop"
    /\ LET r == TryPop(queue)
       IN /\ queue' = r.queue
          /\ wjob' = [wjob EXCEPT ![w] = r.val]
          /\ wpc' = [wpc EXCEPT ![w] = IF r.val # 0 THEN "notify_one"
                                       ELSE "chk_closed"]
          /\ recvd' = IF r.val # 0 THEN [recvd EXCEPT ![r.val] = @ + 1]
                      ELSE recvd
    /\ UNCHANGED <<closed, mutex, gen, spc, dpc>>
    /\ UNCHANGED <<callVars, panics, runs, ranBy, singleVars, auxVars, reqVars>>

\* Receiver::recv, lines 65-66: cvar.notify_one(); return Some(val)
RecvNotifyOne(w) ==
    /\ wpc[w] = "notify_one"
    /\ \/ /\ \A v \in Threads : wpc[v] # "parked"
          /\ wpc' = [wpc EXCEPT ![w] = "exec"]
       \/ \E v \in Threads :
             /\ wpc[v] = "parked"
             /\ wpc' = [wpc EXCEPT ![w] = "exec", ![v] = "woken"]
    /\ UNCHANGED <<queue, closed, mutex, wjob, gen, spc, dpc>>
    /\ UNCHANGED <<callVars, jobVars, singleVars, auxVars, reqVars>>

\* a recv() that never looks at the closed flag and always goes on to wait()
RecvChkClosedBlind(w) ==
    /\ wpc[w] = "chk_closed"
    /\ wpc' = [wpc EXCEPT ![w] = "lock"]
    /\ UNCHANGED <<queue, closed, mutex, wjob, gen, spc, dpc>>
    /\ UNCHANGED <<callVars, jobVars, singleVars, auxVars, reqVars>>

\* Receiver::recv, lines 69-73: closed => notify_all and return None, which
\* ends the worker's loop; otherwise go on to wait()
RecvChkClosed(w) ==
    /\ wpc[w] = "chk_closed"
    /\ wpc' = IF closed THEN [NotifyAll(wpc) EXCEPT ![w] = "exited"]
              ELSE [wpc EXCEPT ![w] = "lock"]
    /\ UNCHANGED <<queue, closed, mutex, wjob, gen, spc, dpc>>
    /\ UNCHANGED <<callVars, jobVars, singleVars, auxVars, reqVars>>

\* Receiver::wait, line 55: self.0.mutex.lock()
WaitLock(w) ==
    /\ wpc[w] = "lock"
    /\ mutex = 0
    /\ mutex' = w
    /\ wpc' = [wpc EXCEPT ![w] = "park"]
    /\ UNCHANGED <<queue, closed, wjob, gen, spc, dpc>>
    /\ UNCHANGED <<callVars, jobVars, singleVars, auxVars, reqVars>>

\* Receiver::wait, line 55: cvar.wait releases the mutex and parks the thread
WaitPark(w) ==
    /\ wpc[w] = "park"
    /\ mutex' = 0
    /\ wpc' = [wpc EXCEPT ![w] = "parked"]
    /\ UNCHANGED <<queue, closed, wjob, gen, spc, dpc>>
    /\ UNCHANGED <<callVars, jobVars, singleVars, auxVars, reqVars>>

\* a notified thread takes the mutex again before cvar.wait returns
WaitRelock(w) ==
    /\ wpc[w] = "woken"
    /\ mutex = 0
    /\ mutex' = w
    /\ wpc' = [wpc EXCEPT ![w] = "unlock"]
    /\ UNCHANGED <<queue, closed, wjob, gen, spc, dpc>>
    /\ UNCHANGED <<callVars, jobVars, singleVars, auxVars, reqVars>>

\* a wait() whose return makes recv() return None at once
WaitUnlockReturn(w) ==
    /\ wpc[w] = "unlock"
    /\ mutex' = 0
    /\ wpc' = [wpc EXCEPT ![w] = "exited"]
    /\ UNCHANGED <<queue, closed, wjob, gen, spc, dpc>>
    /\ UNCHANGED <<callVars, jobVars, singleVars, auxVars, reqVars>>

\* the MutexGuard temporary of wait() is dropped; recv() loops
WaitUnlock(w) ==
    /\ wpc[w] = "unlock"
    /\ mutex' = 0
    /\ wpc' = [wpc EXCEPT ![w] = "try_pop"]
    /\ UNCHANGED <<queue, closed, wjob, gen, spc, dpc>>
    /\ UNCHANGED <<callVars, jobVars, singleVars, auxVars, reqVars>>

\* the job body was run by worker w
Ran(j, w) ==
    /\ runs' = [runs EXCEPT ![j] = @ + 1]
    /\ ranBy' = [ranBy EXCEPT ![j] = @ \cup {<<w, gen[w]>>}]

\* spawn_thread, line 88: exec.exec() returns, the loop calls recv() again
ExecReturns(w) ==
    /\ wpc[w] = "exec"
    /\ ~panics[wjob[w]]
    /\ BodyReturns(wjob[w], OkRes(wjob[w]))
    /\ Ran(wjob[w], w)
    /\ wpc' = [wpc EXCEPT ![w] = "try_pop"]
    /\ wjob' = [wjob EXCEPT ![w] = 0]
    /\ UNCHANGED <<queue, closed, mutex, gen, spc, dpc>>
    /\ UNCHANGED <<clientVars, panics, recvd, singleVars, auxVars, reqVars>>

\* spawn_thread, line 88: exec.exec() panics, the thread unwinds
ExecPanics(w) ==
    /\ wpc[w] = "exec"
    /\ panics[wjob[w]]
    /\ BodyPanics(wjob[w])
    /\ Ran(wjob[w], w)
    /\ wpc' = [wpc EXCEPT ![w] = "unwinding"]
    /\ wjob' = [wjob EXCEPT ![w] = 0]
    /\ UNCHANGED <<queue, closed, mutex, gen, spc, dpc>>
    /\ UNCHANGED <<clientVars, panics, recvd, singleVars, auxVars, reqVars>>

\* a Sentinel whose drop lets the panicked thread end without a successor
SentinelDropQuiet(w) ==
    /\ wpc[w] = "unwinding"
    /\ wpc' = [wpc EXCEPT ![w] = "exited"]
    /\ UNCHANGED <<queue, closed, mutex, wjob, gen, spc, dpc>>
    /\ UNCHANGED <<callVars, jobVars, singleVars, auxVars, reqVars>>

\* Drop for Sentinel while thread::panicking(): spawn_thread(self.thread,
\* self.recv.clone()), a new thread in the same slot on the same receiver
SentinelDrop(w) ==
    /\ wpc[w] = "unwinding"
    /\ gen' = [gen EXCEPT ![w] = @ + 1]
    /\ wpc' = [wpc EXCEPT ![w] = "try_pop"]
    /\ UNCHANGED <<queue, closed, mutex, wjob, spc, dpc>>
    /\ UNCHANGED <<callVars, jobVars, singleVars, auxVars, reqVars>>

InitMpmc ==
    /\ InitCallVars([j \in Jobs |-> BuiltCall])
    /\ panics \in PanicChoices
    /\ InitJobVars
    /\ InitMpmcVars
    /\ InitSingleVars
    /\ InitReqVars
    /\ InitAdapterVars
    /\ InitWakeVars
    /\ InitChainVars

WorkerStep(w) ==
    \/ RecvTryPop(w)
    \/ RecvNotifyOne(w)
    \/ RecvChkClosed(w)
    \/ WaitLock(w)
    \/ WaitPark(w)
    \/ WaitRelock(w)
    \/ WaitUnlock(w)
    \/ ExecReturns(w)
    \/ ExecPanics(w)
    \/ SentinelDrop(w)

SendStep(j) == SendPush(j) \/ SendNotify(j)

NextMpmc ==
    \/ \E j \in Jobs : SendPush(j)
    \/ \E j \in Jobs : SendNotify(j)
    \/ \E w \in Threads : RecvTryPop(w)
    \/ \E w \in Threads : RecvNotifyOne(w)
    \/ \E w \in Threads : RecvChkClosed(w)
    \/ \E w \in Threads : WaitLock(w)
    \/ \E w \in Threads : WaitPark(w)
    \/ \E w \in Threads : WaitRelock(w)
    \/ \E w \in Threads : WaitUnlock(w)
    \/ \E w \in Threads : ExecReturns(w)
    \/ \E w \in Threads : ExecPanics(w)
    \/ \E w \in Threads : SentinelDrop(w)

SpecMpmc == InitMpmc /\ [][NextMpmc]_vars

\* every thread that can take a step eventually takes one
FairSpecMpmc ==
    /\ SpecMpmc
    /\ \A j \in Jobs : WF_vars(SendStep(j))
    /\ \A w \in Threads : WF_vars(WorkerStep(w))

\* ----------------------------- SpecMpmcClose: the Sender is dropped as well
\* Drop for Sender, line 47: closed.store(true).  The drop owns the Sender,
\* so no send() is running and none starts afterwards.
SenderDropStore ==
    /\ dpc = "live"
    /\ \A j \in Jobs : spc[j] # "notify"
    /\ closed' = TRUE
    /\ dpc' = "notify"
    /\ UNCHANGED <<queue, mutex, wpc, wjob, gen, spc>>
    /\ UNCHANGED <<callVars, jobVars, singleVars, auxVars, reqVars>>

\* Drop for Sender, line 48: cvar.notify_all(), the mutex is not taken
SenderDropNotify ==
    /\ dpc = "notify"
    /\ wpc' = NotifyAll(wpc)
    /\ dpc' = "dropped"
    /\ UNCHANGED <<queue, closed, mutex, wjob, gen, spc>>
    /\ UNCHANGED <<callVars, jobVars, singleVars, auxVars, reqVars>>

\* send() needs the Sender: it is called only while the Sender exists
SendWhileLive(j) == dpc = "live" /\ SendPush(j)

NextMpmcClose ==
    \/ \E j \in Jobs : SendWhileLive(j)
    \/ \E j \in Jobs : SendNotify(j)
    \/ SenderDropStore
    \/ SenderDropNotify
    \/ \E w \in Threads : RecvTryPop(w)
    \/ \E w \in Threads : RecvNotifyOne(w)
    \/ \E w \in Threads : RecvChkClosed(w)
    \/ \E w \in Threads : WaitLock(w)
    \/ \E w \in Threads : WaitPark(w)
    \/ \E w \in Threads : WaitRelock(w)
    \/ \E w \in Threads : WaitUnlock(w)
    \/ \E w \in Threads : ExecReturns(w)
    \/ \E w \in Threads : ExecPanics(w)
    \/ \E w \in Threads : SentinelDrop(w)

SpecMpmcClose == InitMpmc /\ [][NextMpmcClose]_vars

\* ------------------------------- SpecFifo: one sender thread and one worker
\* SingleThread::start of threaded.rs: spawn_thread(0, recv), so only the
\* first worker slot has a thread
OneWorker == {1}

\* the only sender thread calls send(1), send(2), ... one after the other
SendInOrder(j) ==
    /\ \A k \in Jobs : k < j => spc[k] = "sent"
    /\ SendPush(j)

NextFifo ==
    \/ \E j \in Jobs : SendInOrder(j)
    \/ \E j \in Jobs : SendNotify(j)
    \/ \E w \in OneWorker : RecvTryPop(w)
    \/ \E w \in OneWorker : RecvNotifyOne(w)
    \/ \E w \in OneWorker : RecvChkClosed(w)
    \/ \E w \in OneWorker : WaitLock(w)
    \/ \E w \in OneWorker : WaitPark(w)
    \/ \E w \in OneWorker : WaitRelock(w)
    \/ \E w \in OneWorker : WaitUnlock(w)
    \/ \E w \in OneWorker : ExecReturns(w)
    \/ \E w \in OneWorker : ExecPanics(w)
    \/ \E w \in OneWorker : SentinelDrop(w)

SpecFifo == InitMpmc /\ [][NextFifo]_vars

\* ------------------------------------------ SpecSingle: executor/single.rs
\* the closures buffered in a channel are dropped with its Receiver: each
\* guard is dropped without the body having run
DropGuards(js) ==
    LET r == [j \in Jobs |-> DropGuard(guard[j], chan[j], sent[j])]
    IN /\ guard' = [j \in Jobs |-> IF j \in js THEN r[j].guard ELSE guard[j]]
       /\ chan' = [j \in Jobs |-> IF j \in js THEN r[j].chan ELSE chan[j]]
       /\ sent' = [j \in Jobs |-> IF j \in js THEN r[j].sent ELSE sent[j]]
       /\ jobpc' = [j \in Jobs |-> IF j \in js THEN "dropped" ELSE jobpc[j]]
       /\ UNCHANGED <<completes, firstRes, panicHead>>

Range(q) == {q[i] : i \in 1..Len(q)}

\* a send() that never reports a disconnected channel
SendOkAlways(r) == TRUE

\* mpsc::Sender::send: Ok while the Receiver exists, Err(SendError(job)) after
SendOk(r) == r = "open"

\* a SenderCell::set that leaves the old Sender in place
SenderCellKeep(old, tx) == old

\* SenderCell::set: self.0 = sender
SenderCellSet(old, tx) == tx

\* the Senders of channel c that still exist: the SenderCell and the clones
\* and fresh Senders held by execute() calls
Senders(c) ==
    (IF cur = c THEN {0} ELSE {})
    \cup {j \in Jobs : has[j] = c \/ newtx[j] = c}

\* the jobs whose panic has killed a worker thread
DeadFrom == {swjob[c] : c \in {d \in Chans : swpc[d] = "dead"}}

\* SingleThread::execute is called
ExecuteStart(j) ==
    /\ epc[j] = "idle"
    /\ epc' = [epc EXCEPT ![j] = "sender"]
    /\ deadBefore' = [deadBefore EXCEPT ![j] = DeadFrom]
    /\ UNCHANGED <<cur, wlock, respawning, has, newtx, deliveredTo, lostTo,
                   retried, failedOn>>
    /\ UNCHANGED <<callVars, jobVars, mpmcVars, reqVars, auxVars, chanVars>>

\* Master::sender: read-lock the cell and clone the Sender
MasterSender(j) ==
    /\ epc[j] = "sender"
    /\ wlock = 0
    /\ has' = [has EXCEPT ![j] = cur]
    /\ epc' = [epc EXCEPT ![j] = "send"]
    /\ UNCHANGED <<cur, wlock, respawning, newtx>>
    /\ UNCHANGED <<callVars, jobVars, mpmcVars, reqVars, auxVars, chanVars, ghostVars>>

\* execute, line 39: send(exec) is Ok, the loop ends
SendAccepted(j) ==
    /\ epc[j] = "send"
    /\ SendOk(rx[has[j]])
    /\ chq' = [chq EXCEPT ![has[j]] = Append(@, j)]
    /\ deliveredTo' = [deliveredTo EXCEPT ![j] = has[j]]
    /\ has' = [has EXCEPT ![j] = 0]
    /\ epc' = [epc EXCEPT ![j] = "done"]
    /\ UNCHANGED <<cur, wlock, respawning, newtx, lostTo,
                   deadBefore, retried, failedOn>>
    /\ UNCHANGED <<nch, rx, swpc, swjob>>
    /\ UNCHANGED <<callVars, jobVars, mpmcVars, reqVars, auxVars>>

\* a failed send that leaves the job in the channel and hands it back too
SendRefusedKept(j) ==
    /\ epc[j] = "send"
    /\ ~SendOk(rx[has[j]])
    /\ chq' = [chq EXCEPT ![has[j]] = Append(@, j)]
    /\ has' = [has EXCEPT ![j] = 0]
    /\ epc' = [epc EXCEPT ![j] = "cas"]
    /\ retried' = [retried EXCEPT ![j] = TRUE]
    /\ failedOn' = [failedOn EXCEPT ![j] = has[j]]
    /\ UNCHANGED <<cur, wlock, respawning, newtx, deliveredTo, lostTo,
                   deadBefore>>
    /\ UNCHANGED <<nch, rx, swpc, swjob>>
    /\ UNCHANGED <<callVars, jobVars, mpmcVars, reqVars, auxVars>>

\* execute, lines 39-41: send(exec) is Err(SendError(exec_)); respawn()
SendRefused(j) ==
    /\ epc[j] = "send"
    /\ ~SendOk(rx[has[j]])
    /\ has' = [has EXCEPT ![j] = 0]
    /\ epc' = [epc EXCEPT ![j] = "cas"]
    /\ retried' = [retried EXCEPT ![j] = TRUE]
    /\ failedOn' = [failedOn EXCEPT ![j] = has[j]]
    /\ UNCHANGED <<cur, wlock, respawning, newtx, deliveredTo, lostTo,
                   deadBefore>>
    /\ UNCHANGED <<callVars, jobVars, mpmcVars, reqVars, auxVars, chanVars>>

\* respawn, line 68: respawning.compare_and_swap(false, true)
RespawnCas(j) ==
    /\ epc[j] = "cas"
    /\ respawning' = TRUE
    /\ epc' = [epc EXCEPT ![j] = IF respawning THEN "rlock" ELSE "wlock"]
    /\ UNCHANGED <<cur, wlock, has, newtx>>
    /\ UNCHANGED <<callVars, jobVars, mpmcVars, reqVars, auxVars, chanVars, ghostVars>>

\* respawn, line 69: self.sender.write()
RespawnWrite(j) ==
    /\ epc[j] = "wlock"
    /\ wlock = 0
    /\ wlock' = j
    /\ epc' = [epc EXCEPT ![j] = "spawn"]
    /\ UNCHANGED <<cur, respawning, has, newtx>>
    /\ UNCHANGED <<callVars, jobVars, mpmcVars, reqVars, auxVars, chanVars, ghostVars>>

\* respawn, line 71: spawn_thread() makes a channel and a worker on it
RespawnSpawn(j) ==
    /\ epc[j] = "spawn"
    /\ nch < MaxChans
    /\ nch' = nch + 1
    /\ rx' = [rx EXCEPT ![nch + 1] = "open"]
    /\ swpc' = [swpc EXCEPT ![nch + 1] = "recv"]
    /\ newtx' = [newtx EXCEPT ![j] = nch + 1]
    /\ epc' = [epc EXCEPT ![j] = "set"]
    /\ UNCHANGED <<cur, wlock, respawning, has>>
    /\ UNCHANGED <<chq, swjob>>
    /\ UNCHANGED <<callVars, jobVars, mpmcVars, reqVars, auxVars, ghostVars>>

\* respawn, lines 73-76: sender.set(tx); the write guard is dropped
RespawnSet(j) ==
    /\ epc[j] = "set"
    /\ cur' = SenderCellSet(cur, newtx[j])
    /\ newtx' = [newtx EXCEPT ![j] = 0]
    /\ wlock' = 0
    /\ epc' = [epc EXCEPT ![j] = "store"]
    /\ UNCHANGED <<respawning, has>>
    /\ UNCHANGED <<callVars, jobVars, mpmcVars, reqVars, auxVars, chanVars, ghostVars>>

\* respawn, line 78: respawning.store(false); execute loops
RespawnStore(j) ==
    /\ epc[j] = "store"
    /\ respawning' = FALSE
    /\ epc' = [epc EXCEPT ![j] = "sender"]
    /\ UNCHANGED <<cur, wlock, has, newtx>>
    /\ UNCHANGED <<callVars, jobVars, mpmcVars, reqVars, auxVars, chanVars, ghostVars>>

\* respawn, line 81: let _ = self.sender.read(); execute loops
RespawnRead(j) ==
    /\ epc[j] = "rlock"
    /\ wlock = 0
    /\ epc' = [epc EXCEPT ![j] = "sender"]
    /\ UNCHANGED <<cur, wlock, respawning, has, newtx>>
    /\ UNCHANGED <<callVars, jobVars, mpmcVars, reqVars, auxVars, chanVars, ghostVars>>

\* spawn_thread, line 90: `for exec in rx` receives the next job
WorkerRecv(c) ==
    /\ swpc[c] = "recv"
    /\ chq[c] # <<>>
    /\ swjob' = [swjob EXCEPT ![c] = Head(chq[c])]
    /\ chq' = [chq EXCEPT ![c] = Tail(@)]
    /\ swpc' = [swpc EXCEPT ![c] = "exec"]
    /\ recvd' = [recvd EXCEPT ![Head(chq[c])] = @ + 1]
    /\ UNCHANGED <<nch, rx>>
    /\ UNCHANGED <<callVars, panics, runs, ranBy, mpmcVars, reqVars, auxVars, masterVars,
                   ghostVars>>

\* spawn_thread, line 90: every Sender is gone and the buffer is empty, the
\* iterator ends and the thread returns
WorkerExit(c) ==
    /\ swpc[c] = "recv"
    /\ chq[c] = <<>>
    /\ Senders(c) = {}
    /\ swpc' = [swpc EXCEPT ![c] = "exited"]
    /\ rx' = [rx EXCEPT ![c] = "dropped"]
    /\ UNCHANGED <<nch, chq, swjob>>
    /\ UNCHANGED <<callVars, jobVars, mpmcVars, reqVars, auxVars, masterVars, ghostVars>>

\* spawn_thread, line 91: exec.exec() returns
WorkerExecReturns(c) ==
    /\ swpc[c] = "exec"
    /\ ~panics[swjob[c]]
    /\ BodyReturns(swjob[c], OkRes(swjob[c]))
    /\ runs' = [runs EXCEPT ![swjob[c]] = @ + 1]
    /\ ranBy' = [ranBy EXCEPT ![swjob[c]] = @ \cup {<<c, 0>>}]
    /\ swpc' = [swpc EXCEPT ![c] = "recv"]
    /\ UNCHANGED <<nch, chq, rx, swjob>>
    /\ UNCHANGED <<clientVars, panics, recvd, mpmcVars, reqVars, auxVars, masterVars, ghostVars>>

\* spawn_thread, line 91: exec.exec() panics; the closure's frame unwinds
\* first, which drops its guard
WorkerExecPanics(c) ==
    /\ swpc[c] = "exec"
    /\ panics[swjob[c]]
    /\ BodyPanics(swjob[c])
    /\ runs' = [runs EXCEPT ![swjob[c]] = @ + 1]
    /\ ranBy' = [ranBy EXCEPT ![swjob[c]] = @ \cup {<<c, 0>>}]
    /\ swpc' = [swpc EXCEPT ![c] = "unwinding"]
    /\ UNCHANGED <<nch, chq, rx, swjob>>
    /\ UNCHANGED <<clientVars, panics, recvd, mpmcVars, reqVars, auxVars, masterVars, ghostVars>>

\* the unwinding reaches the thread's closure: rx is dropped, and with it
\* every job still buffered in the channel
WorkerDropRx(c) ==
    /\ swpc[c] = "unwinding"
    /\ DropGuards(Range(chq[c]))
    /\ lostTo' = [j \in Jobs |-> IF j \in Range(chq[c]) THEN swjob[c]
                                 ELSE lostTo[j]]
    /\ chq' = [chq EXCEPT ![c] = <<>>]
    /\ rx' = [rx EXCEPT ![c] = "dropped"]
    /\ swpc' = [swpc EXCEPT ![c] = "dead"]
    /\ UNCHANGED <<nch, swjob, deliveredTo, deadBefore, retried, failedOn>>
    /\ UNCHANGED <<clientVars, jobVars, mpmcVars, reqVars, auxVars, masterVars>>

InitSingle ==
    /\ InitCallVars([j \in Jobs |-> BuiltCall])
    /\ panics \in PanicChoices
    /\ InitJobVars
    /\ InitMpmcVars
    /\ InitSingleVars
    /\ InitReqVars
    /\ InitAdapterVars
    /\ InitWakeVars
    /\ InitChainVars

ExecuteStep(j) ==
    \/ ExecuteStart(j)
    \/ MasterSender(j)
    \/ SendAccepted(j)
    \/ SendRefused(j)
    \/ RespawnCas(j)
    \/ RespawnWrite(j)
    \/ RespawnSpawn(j)
    \/ RespawnSet(j)
    \/ RespawnStore(j)
    \/ RespawnRead(j)

SingleWorkerStep(c) ==
    \/ WorkerRecv(c)
    \/ WorkerExit(c)
    \/ WorkerExecReturns(c)
    \/ WorkerExecPanics(c)
    \/ WorkerDropRx(c)

NextSingle ==
    \/ \E j \in Jobs : ExecuteStart(j)
    \/ \E j \in Jobs : MasterSender(j)
    \/ \E j \in Jobs : SendAccepted(j)
    \/ \E j \in Jobs : SendRefused(j)
    \/ \E j \in Jobs : RespawnCas(j)
    \/ \E j \in Jobs : RespawnWrite(j)
    \/ \E j \in Jobs : RespawnSpawn(j)
    \/ \E j \in Jobs : RespawnSet(j)
    \/ \E j \in Jobs : RespawnStore(j)
    \/ \E j \in Jobs : RespawnRead(j)
    \/ \E c \in Chans : WorkerRecv(c)
    \/ \E c \in Chans : WorkerExit(c)
    \/ \E c \in Chans : WorkerExecReturns(c)
    \/ \E c \in Chans : WorkerExecPanics(c)
    \/ \E c \in Chans : WorkerDropRx(c)

SpecSingle == InitSingle /\ [][NextSingle]_vars

\* every submitting thread and every worker thread that can take a step
\* eventually takes one
FairSpecSingle ==
    /\ SpecSingle
    /\ \A j \in Jobs : WF_vars(ExecuteStep(j))
    /\ \A c \in Chans : WF_vars(SingleWorkerStep(c))

\* ------------------------------------------- SpecRequest: net/request.rs
\* A caller holds Requests made by Request::immediate(res) or by
\* RequestBuilder::build, and calls exec() or exec_here() on each.  The jobs
\* go through the queue of mpmc.rs to one worker, which runs the stages of
\* exec_request; the caller blocks on the Call or drops it.

\* the stages of the job body, in the order of the source text
Stages == <<"intercept", "encode", "init", "send", "decode">>

\* the error of the failing stage k
StageError(k) == [kind |-> "Stage", val |-> k]

\* the Requests a service method returns: immediate(res) or a built one
NewRequests(j) == {c \in NewCalls(j) : c.state = "Immediate"} \cup {BuiltCall}

InitRequest ==
    /\ \E new \in [Jobs -> UNION {NewRequests(j) : j \in Jobs}] :
        /\ \A j \in ReqJobs : new[j] \in NewRequests(j)
        /\ \A j \in Jobs \ ReqJobs : new[j] = BuiltCall
        /\ InitCallVars(new)
    /\ panics = [j \in Jobs |-> FALSE]
    /\ InitJobVars
    /\ InitMpmcVars
    /\ InitSingleVars
    /\ InitReqVars
    /\ InitAdapterVars
    /\ InitWakeVars
    /\ InitChainVars

\* an exec that maps over None as if it were Some
HasJobAlways(st) == TRUE

\* Request.exec is Some(ExecRequest): the request holds a job
HasJob(st) == st = "held"

\* Request::exec: self.exec.map(ExecRequest::exec), which is sender.send up
\* to queue.push; the notify_all is SendNotify.  Then the Call is returned.
ReqExec(j) ==
    /\ rpc[j] = "new"
    /\ rpc' = [rpc EXCEPT ![j] = "exec"]
    /\ IF HasJob(jobpc[j])
       THEN /\ queue' = Append(queue, j)
            /\ spc' = [spc EXCEPT ![j] = "notify"]
       ELSE UNCHANGED <<queue, spc>>
    /\ UNCHANGED <<closed, mutex, wpc, wjob, gen, dpc>>
    /\ UNCHANGED <<stageLog, bodyRes, callVars, jobVars, singleVars, auxVars>>

\* an exec_here that hands the job to the queue as well
ReqExecHereQueued(j) ==
    /\ rpc[j] = "new"
    /\ rpc' = [rpc EXCEPT ![j] = "here"]
    /\ queue' = IF HasJob(jobpc[j]) THEN Append(queue, j) ELSE queue
    /\ UNCHANGED <<closed, mutex, wpc, wjob, gen, spc, dpc>>
    /\ UNCHANGED <<stageLog, bodyRes, callVars, jobVars, singleVars, auxVars>>

\* Request::exec_here: self.exec.map(ExecRequest::exec_here) runs the closure
\* on the calling thread
ReqExecHere(j) ==
    /\ rpc[j] = "new"
    /\ rpc' = [rpc EXCEPT ![j] = "here"]
    /\ UNCHANGED <<stageLog, bodyRes, callVars, jobVars, mpmcVars, singleVars, auxVars>>

\* the threads now inside the closure of job j: the caller (0) in
\* exec_here, or the worker that received the job
RunsOn(j) ==
    (IF rpc[j] = "here" THEN {0} ELSE {})
    \cup {w \in OneWorker : wpc[w] = "exec" /\ wjob[w] = j}

\* a body that goes on to the next stage whatever the last one returned
ProceedsAlways(res) == TRUE

\* try!() and and_then(): the next stage runs only while there is no error
Proceeds(res) == res = NoRes

\* a stage k of the body is invoked on thread t and returns Ok or Err
RunStage(j, k, ok) ==
    /\ RunsOn(j) # {}
    /\ jobpc[j] = "running"
    /\ Len(stageLog[j]) < Len(Stages)
    /\ Stages[Len(stageLog[j]) + 1] = Stages[k]
    /\ Proceeds(bodyRes[j])
    /\ \E t \in RunsOn(j) :
          stageLog' = [stageLog EXCEPT ![j] = Append(@, <<Stages[k], t>>)]
    /\ bodyRes' = [bodyRes EXCEPT ![j] =
                      IF ~ok THEN StageError(k)
                      ELSE IF k = Len(Stages) THEN OkRes(j)
                      ELSE bodyRes[j]]
    /\ UNCHANGED <<rpc, callVars, jobVars, mpmcVars, singleVars, auxVars>>

\* exec_request, lines 469-471: interceptor.intercept(head); it returns ()
StageIntercept(j) ==
    /\ RunsOn(j) # {}
    /\ jobpc[j] = "held"
    /\ jobpc' = [jobpc EXCEPT ![j] = "running"]
    /\ guard' = [guard EXCEPT ![j].head = 2]
    /\ \E t \in RunsOn(j) :
          stageLog' = [stageLog EXCEPT ![j] = Append(@, <<Stages[1], t>>)]
    /\ UNCHANGED <<chan, sent, completes, firstRes, panicHead, clientVars>>
    /\ UNCHANGED <<rpc, bodyRes, jobVars, mpmcVars, singleVars, auxVars>>

\* exec_request, line 473: try!(body.into_readable(&consts.serializer))
StageEncode(j, ok) == RunStage(j, 2, ok)

\* exec_request, line 479: head.init_request(base_url, client)?
StageInit(j, ok) == RunStage(j, 3, ok)

\* exec_request, line 480: .body(..).send().map_err(Into::into)
StageSend(j, ok) == RunStage(j, 4, ok)

\* build, line 302: .and_then(|response| T::from_response(.., response))
StageDecode(j, ok) == RunStage(j, 5, ok)

\* a Complete::complete that panics when the Oneshot is gone
CompleteOutcomeStrict(rxGone) == IF rxGone THEN "panic" ELSE "ok"

\* futures Complete::complete returns () whether or not the Oneshot exists
CompleteOutcome(rxGone) == "ok"

\* the stages are over (a result or the first error): a stage is no longer
\* to be run
BodyOver(j) ==
    /\ jobpc[j] = "running"
    /\ bodyRes[j] # NoRes

\* build, lines 304-305, on the worker: guard.complete(res), the closure
\* returns and the loop of spawn_thread calls recv() again
WorkerBodyComplete(w) ==
    /\ wpc[w] = "exec"
    /\ BodyOver(wjob[w])
    /\ BodyReturns(wjob[w], bodyRes[wjob[w]])
    /\ Ran(wjob[w], w)
    /\ wpc' = [wpc EXCEPT ![w] =
                  IF CompleteOutcome(rpc[wjob[w]] = "ignored") = "ok"
                  THEN "try_pop" ELSE "unwinding"]
    /\ wjob' = [wjob EXCEPT ![w] = 0]
    /\ UNCHANGED <<queue, closed, mutex, gen, spc, dpc>>
    /\ UNCHANGED <<clientVars, panics, recvd, singleVars, auxVars, reqVars>>

\* build, lines 304-305, on the caller in exec_here: guard.complete(res)
HereBodyComplete(j) ==
    /\ rpc[j] = "here"
    /\ BodyOver(j)
    /\ BodyReturns(j, bodyRes[j])
    /\ runs' = [runs EXCEPT ![j] = @ + 1]
    /\ ranBy' = [ranBy EXCEPT ![j] = @ \cup {<<0, 0>>}]
    /\ UNCHANGED <<clientVars, panics, recvd, mpmcVars, singleVars, auxVars, reqVars>>

\* exec_here, line 376: self.call.block(), once exec.map(..) has returned
HereBlock(j) ==
    /\ rpc[j] = "here"
    /\ jobpc[j] \in {"none", "finished"}
    /\ blockSt[j] = "no"
    /\ blockSt' = [blockSt EXCEPT ![j] = "blocked"]
    /\ UNCHANGED <<guardVars, callState, immRes, pollLog, blockRes>>
    /\ UNCHANGED execVars

\* exec() has returned the Call to the caller
CallInHand(j) == rpc[j] = "exec" /\ spc[j] # "notify"

\* the caller blocks on the Call that exec() returned
ReqBlock(j) == CallInHand(j) /\ BlockStart(j)

\* the caller drops the Call that exec() returned (Call::ignore)
CallDrop(j) ==
    /\ CallInHand(j)
    /\ blockSt[j] = "no"
    /\ rpc' = [rpc EXCEPT ![j] = "ignored"]
    /\ UNCHANGED <<stageLog, bodyRes, callVars, jobVars, mpmcVars, singleVars, auxVars>>

NextRequest ==
    \/ \E j \in ReqJobs : ReqExec(j)
    \/ \E j \in ReqJobs : SendNotify(j)
    \/ \E j \in ReqJobs : ReqExecHere(j)
    \/ \E j \in ReqJobs : StageIntercept(j)
    \/ \E j \in ReqJobs : \E ok \in BOOLEAN : StageEncode(j, ok)
    \/ \E j \in ReqJobs : \E ok \in BOOLEAN : StageInit(j, ok)
    \/ \E j \in ReqJobs : \E ok \in BOOLEAN : StageSend(j, ok)
    \/ \E j \in ReqJobs : \E ok \in BOOLEAN : StageDecode(j, ok)
    \/ \E j \in ReqJobs : HereBodyComplete(j)
    \/ \E j \in ReqJobs : HereBlock(j)
    \/ \E j \in ReqJobs : ReqBlock(j)
    \/ \E j \in ReqJobs : BlockReturn(j)
    \/ \E j \in ReqJobs : CallDrop(j)
    \/ \E w \in OneWorker : WorkerBodyComplete(w)
    \/ \E w \in OneWorker : RecvTryPop(w)
    \/ \E w \in OneWorker : RecvNotifyOne(w)
    \/ \E w \in OneWorker : RecvChkClosed(w)
    \/ \E w \in OneWorker : WaitLock(w)
    \/ \E w \in OneWorker : WaitPark(w)
    \/ \E w \in OneWorker : WaitRelock(w)
    \/ \E w \in OneWorker : WaitUnlock(w)

SpecRequest == InitRequest /\ [][NextRequest]_vars

\* ------------------------------------------- properties of Call / PanicGuard
\* the job holding the guard has met its fate: it completed, panicked, or
\* was dropped without being run
Fated(j) == completes[j] > 0 \/ jobpc[j] \in {"finished", "panicked", "dropped"}

\* what a poll of the Call would return now
PollNow(j) == poll_by(callState[j], immRes[j], chan[j]).res

\* the polls so far that returned something else than NotReady
Resolved(j) == {i \in 1..Len(pollLog[j]) : pollLog[j][i] # NotReady}

FirstResolved(j) == CHOOSE i \in Resolved(j) : \A k \in Resolved(j) : i <= k

\* the first answer the caller got from the Call, or would get now
Outcome(j) ==
    IF Resolved(j) # {} THEN pollLog[j][FirstResolved(j)]
    ELSE IF blockSt[j] = "returned" THEN blockRes[j]
    ELSE PollNow(j)

\* the kinds of Poll that carry a value sent through the channel
Payload == {"Ok", "Stage", "RequestPanicked"}

\* the values the caller has been handed so far, by poll and by block
Yields(j) ==
    Cardinality({i \in 1..Len(pollLog[j]) : pollLog[j][i].kind \in Payload})
    + (IF blockRes[j].kind \in Payload THEN 1 ELSE 0)

\* C4: every Call made by oneshot() resolves: once the job holding the guard
\* has completed, panicked or been dropped unrun, a poll never again
\* returns NotReady and a thread blocked in block() eventually returns (it
\* is not blocked forever; block() leaves "blocked" only by returning).
C4_CallResolves ==
    /\ [](\A j \in CallJobs : Fated(j) => PollNow(j) # NotReady)
    /\ []<>(\A j \in CallJobs : ~(Fated(j) /\ blockSt[j] = "blocked"))

\* a guard without head was dropped unrun and the blocked thread returned
C4_Witness ==
    \E j \in CallJobs :
        /\ jobpc[j] = "dropped"
        /\ blockSt[j] = "returned"
        /\ blockRes[j] = ErrPanic

\* C5: poll contract of a queued Call: NotReady while the guard has sent
\* nothing, the result on the first poll after the guard sent it,
\* Error::ResultTaken on every later poll, with result_taken() true then.
C5_PollContract ==
    \A j \in CallJobs :
        jobpc[j] # "none" =>
            /\ (~chan[j].done => PollNow(j) = NotReady)
            /\ sent[j] > 0 =>
                  /\ \A i \in Resolved(j) :
                        IF i = FirstResolved(j)
                        THEN pollLog[j][i].kind \in Payload
                        ELSE pollLog[j][i] = ErrResultTaken
                  /\ (Resolved(j) # {} => result_taken(callState[j]))

\* C6: a job that panics before complete() resolves its Call with
\* RequestPanicked carrying the head the guard held, never with a success.
C6_PanicResolvesWithHead ==
    \A j \in CallJobs :
        (jobpc[j] = "panicked" /\ completes[j] = 0) =>
            /\ Outcome(j).kind \in {"RequestPanicked", "Panic"}
            /\ (panicHead[j] # 0 => Outcome(j) = RequestPanicked(panicHead[j]))

\* a job panicked after its interceptor changed the head; block() returned it
C6_Witness ==
    \E j \in CallJobs :
        /\ jobpc[j] = "panicked"
        /\ completes[j] = 0
        /\ panicHead[j] = 2
        /\ blockRes[j] = RequestPanicked(2)

\* C7: a guard stores at most one value in its channel; after the first
\* complete() later complete() calls and the destructor send nothing, and
\* the Call is handed the result of the first complete(), once.
C7_AtMostOneValue ==
    \A j \in CallJobs :
        /\ sent[j] <= 1
        /\ Yields(j) <= 1
        /\ (completes[j] > 0 => Outcome(j) = firstRes[j])

\* complete() was called twice, the guard was dropped, and the Call got the
\* first result
C7_Witness ==
    \E j \in CallJobs :
        /\ completes[j] = 2
        /\ jobpc[j] = "finished"
        /\ sent[j] = 1
        /\ Yields(j) = 1
        /\ Outcome(j) = firstRes[j]

\* ------------------------------------------ properties of the mpmc executor
\* C1: N jobs submitted concurrently are all eventually executed, each
\* exactly once, whichever subset of them panics.
C1_AllJobsRunOnce == <>[](\A j \in Jobs : runs[j] = 1)

\* C2: no accepted job is stranded: there is no state in which every send()
\* has returned, a job is still in the queue, and every worker is asleep in
\* wait() (nothing is left to wake a receiver).
C2_NoStrandedJob ==
    ~ /\ queue # <<>>
      /\ \A j \in Jobs : spc[j] = "sent"
      /\ \A w \in Threads : wpc[w] = "parked"

\* C3: a job pushed once is returned by at most one recv() and is run at
\* most once, by one worker thread, replacement workers included.
C3_AtMostOnce ==
    \A j \in Jobs :
        /\ recvd[j] <= 1
        /\ runs[j] <= 1
        /\ Cardinality(ranBy[j]) <= 1

\* every job has run once, one of them on a respawned worker, while another
\* worker thread shared the receiver
C3_Witness ==
    /\ \A j \in Jobs : runs[j] = 1 /\ recvd[j] = 1
    /\ \E j \in Jobs : \E t \in ranBy[j] : t[2] > 0
    /\ \E j, k \in Jobs : \E t \in ranBy[j] : \E u \in ranBy[k] : t[1] # u[1]

\* ------------------------------------ properties of the SingleThread executor
\* the worker thread of channel c has not terminated
Alive(c) == swpc[c] \in {"recv", "exec", "unwinding"}

\* the channel c was left without a worker by the panic of one of the jobs ks
KilledBy(c, ks) == swpc[c] = "dead" /\ swjob[c] \in ks

C9_OtherJobsUnaffected ==
    \A j \in Jobs :
        ~panics[j] =>
            /\ lostTo[j] = 0
            /\ jobpc[j] # "dropped"
            /\ PollNow(j) \in {NotReady, OkRes(j)}

Failures == {c \in Chans : swpc[c] = "dead"}

\* the replacement workers: every channel but the one made by Master::new
Replacements == nch - 1

\* C11: one replacement worker is spawned per dead worker: respawn() never
\* spawns more worker threads than workers have died, however many
\* submitters were refused by the same dead channel.
C11_OneRespawnPerFailure == Replacements <= Cardinality(Failures)

\* --------------------------------------------- properties of a closed queue
\* C12: no receiver sleeps forever on a closed queue: there is no state in
\* which the Sender's drop has finished (closed set, notify_all done) and a
\* worker is parked in wait() while every other worker is parked or gone.
C12_NoSleeperOnClosed ==
    ~ /\ dpc = "dropped"
      /\ \E w \in Threads : wpc[w] = "parked"
      /\ \A w \in Threads : wpc[w] \in {"parked", "exited"}

\* C13: the closed flag is never cleared once set, and a recv() that finds
\* the queue closed and empty returns None without waiting: from try_pop or
\* the closed check it never goes on to lock the mutex and park.
C13_ClosedIsPermanent ==
    /\ [][closed => closed']_vars
    /\ [][\A w \in Threads :
            (closed /\ queue = <<>> /\ wpc[w] \in {"try_pop", "chk_closed"})
                => wpc'[w] \in {"try_pop", "chk_closed", "exited"}]_vars

\* the queue was closed after a job ran, a worker found it closed and empty
\* and its recv() returned None
C13_Witness ==
    /\ closed
    /\ queue = <<>>
    /\ \E j \in Jobs : runs[j] = 1
    /\ \E w \in Threads : wpc[w] = "exited"

\* ------------------------------------------------- properties of the order
\* C14: with one sender and one worker the jobs are received, and run, in
\* the order of the send() calls: when job b has been received (run), every
\* job a sent before it has been received (run) already.
C14_FifoOrder ==
    \A a \in Jobs : \A b \in Jobs :
        a < b =>
            /\ (recvd[b] > 0 => recvd[a] > 0)
            /\ (runs[b] > 0 => runs[a] > 0)

\* every job was sent, received and run, one of them by the worker that the
\* Sentinel respawned after a panic
C14_Witness ==
    /\ \A j \in Jobs : recvd[j] = 1 /\ runs[j] = 1
    /\ \E j \in Jobs : \E t \in ranBy[j] : t[2] > 0

\* ------------------------------------------------ properties of a Request
\* the names of the stages invoked for job j, in order
StageNames(j) == [i \in 1..Len(stageLog[j]) |-> stageLog[j][i][1]]

\* C15: a Request made by Request::immediate(res) has no job: exec() and
\* exec_here() push nothing, no stage is ever invoked for it, and the Call
\* is resolved with res: it never polls NotReady, and block() returns res.
C15_ImmediateBypassesQueue ==
    \A j \in ReqJobs :
        jobpc[j] = "none" =>
            /\ j \notin Range(queue)
            /\ spc[j] = "idle"
            /\ recvd[j] = 0
            /\ runs[j] = 0
            /\ stageLog[j] = <<>>
            /\ (blockSt[j] = "returned" => blockRes[j] = immRes[j])
            /\ (blockSt[j] # "returned" => PollNow(j) = immRes[j])

\* exec_here() of an immediate request returned its error, while the other
\* immediate request went through exec(); the queue never held a job
C15_Witness ==
    \E j \in ReqJobs : \E k \in ReqJobs :
        /\ jobpc[j] = "none" /\ rpc[j] = "here"
        /\ blockSt[j] = "returned" /\ blockRes[j] = StageErr
        /\ jobpc[k] = "none" /\ rpc[k] = "exec"
        /\ queue = <<>>

\* C16: the stages of a job run in the order interceptor, encoding,
\* init, transport, decoding; after a failing stage no later stage is
\* invoked, and the guard completes with that stage's error, which is what
\* the Call resolves with (all five stages ran when the result is Ok).
C16_StagesInOrder ==
    \A j \in ReqJobs :
        /\ StageNames(j) = SubSeq(Stages, 1, Len(stageLog[j]))
        /\ \A k \in 1..Len(Stages) :
              bodyRes[j] = StageError(k) => Len(stageLog[j]) = k
        /\ bodyRes[j] = OkRes(j) => Len(stageLog[j]) = Len(Stages)
        /\ completes[j] > 0 =>
              /\ bodyRes[j] # NoRes
              /\ firstRes[j] = bodyRes[j]
              /\ Outcome(j) = bodyRes[j]

\* the transport failed after the interceptor and the encoder ran on the
\* worker, the decoder was not invoked, and block() returned that error
C16_Witness ==
    \E j \in ReqJobs :
        /\ stageLog[j] = <<<<"intercept", 1>>, <<"encode", 1>>, <<"init", 1>>,
                           <<"send", 1>>>>
        /\ bodyRes[j] = StageError(4)
        /\ blockSt[j] = "returned"
        /\ blockRes[j] = StageError(4)

\* C17: dropping the Call after exec() does not cancel the job: the drop
\* leaves the queue, the job and the workers as they are, the job of a
\* dropped Call still completes its guard once, and that complete() never
\* makes the worker unwind or be replaced.
C17_DropDoesNotCancel ==
    /\ [][\A j \in ReqJobs :
            (rpc[j] # "ignored" /\ rpc'[j] = "ignored") =>
                UNCHANGED <<queue, jobpc, guard, chan, stageLog, bodyRes,
                            wpc, wjob>>]_vars
    /\ [](\A w \in Threads : gen[w] = 0 /\ wpc[w] # "unwinding")
    /\ [](\A j \in ReqJobs :
            (rpc[j] = "ignored" /\ jobpc[j] = "finished") =>
                /\ runs[j] = 1
                /\ sent[j] = 1
                /\ (\E w \in OneWorker : ranBy[j] = {<<w, 0>>}))

\* the job of a dropped Call ran all its stages on the worker, completed,
\* and the same worker thread went on to run a later job
C17_Witness ==
    \E j \in ReqJobs : \E k \in ReqJobs :
        /\ j # k
        /\ rpc[j] = "ignored" /\ jobpc[j] = "finished"
        /\ bodyRes[j] = OkRes(j)
        /\ ranBy[j] = {<<1, 0>>}
        /\ jobpc[k] = "finished" /\ ranBy[k] = {<<1, 0>>}
        /\ recvd[k] = 1 /\ recvd[j] = 1

\* ------------------------------------------- properties of the Call states
\* C18: the state of a Call only moves forward: it changes only from
\* Waiting or Immediate to Taken; Taken is terminal, result_taken() is then
\* true and a poll returns Error::ResultTaken; an Immediate Call yields its
\* result on the first poll and Error::ResultTaken on the later ones.
C18_StateMovesForward ==
    /\ [][\A j \in CallJobs :
            callState'[j] # callState[j] =>
                /\ callState[j] \in {"Waiting", "Immediate"}
                /\ callState'[j] = "Taken"]_vars
    /\ [](\A j \in CallJobs :
            callState[j] = "Taken" =>
                /\ result_taken(callState[j])
                /\ PollNow(j) = ErrResultTaken)
    /\ [](\A j \in CallJobs :
            jobpc[j] = "none" =>
                /\ (callState[j] = "Immediate" =>
                        pollLog[j] = <<>> /\ PollNow(j) = immRes[j])
                /\ \A i \in 1..Len(pollLog[j]) :
                        pollLog[j][i] = IF i = 1 THEN immRes[j]
                                        ELSE ErrResultTaken)

\* an Immediate Call was polled twice: its result, then Error::ResultTaken
C18_Witness ==
    \E j \in CallJobs :
        /\ jobpc[j] = "none"
        /\ callState[j] = "Taken"
        /\ pollLog[j] = <<immRes[j], ErrResultTaken>>

\* the poll_no_task() that this step made returned NotReady
PolledNotReady(j) ==
    /\ Len(pollLog'[j]) = Len(pollLog[j]) + 1
    /\ pollLog'[j][Len(pollLog'[j])] = NotReady

\* C19: a poll that returns NotReady consumes nothing: it happens only on a
\* Waiting Call whose guard has sent nothing, it leaves the Call Waiting
\* and the channel as it was, and the block() or poll that follows the
\* completion returns the value the job passed to complete().
C19_NotReadyConsumesNothing ==
    /\ [][\A j \in CallJobs :
            PolledNotReady(j) =>
                /\ callState[j] = "Waiting" /\ callState'[j] = "Waiting"
                /\ sent[j] = 0
                /\ chan'[j] = chan[j]]_vars
    /\ [](\A j \in CallJobs :
            (completes[j] > 0 /\ NotReady \in Range(pollLog[j])) =>
                /\ (Resolved(j) # {} =>
                        pollLog[j][FirstResolved(j)] = firstRes[j])
                /\ ((Resolved(j) = {} /\ blockSt[j] = "returned") =>
                        blockRes[j] = firstRes[j])
                /\ ((Resolved(j) = {} /\ blockSt[j] # "returned") =>
                        PollNow(j) = firstRes[j]))

\* a poll returned NotReady, the job then completed with Ok, and block()
\* returned that value
C19_Witness ==
    \E j \in CallJobs :
        /\ pollLog[j] = <<NotReady>>
        /\ completes[j] = 1
        /\ blockSt[j] = "returned"
        /\ blockRes[j] = OkRes(j)

\* C20: what is first read from a Call, by poll or by block, is the Result
\* the job passed to complete(), success or stage error, with the same
\* payload; it is never Error::Panic or Error::ResultTaken.
C20_OutcomeUnchanged ==
    \A j \in CallJobs :
        completes[j] > 0 =>
            /\ firstRes[j] \in JobResults(j)
            /\ Outcome(j).kind = firstRes[j].kind
            /\ Outcome(j).val = firstRes[j].val
            /\ Outcome(j) \notin {ErrPanic, ErrResultTaken, NotReady}

\* the job completed with a stage error and block() returned that error
C20_Witness ==
    \E j \in CallJobs :
        /\ completes[j] = 1
        /\ firstRes[j] = StageErr
        /\ blockSt[j] = "returned"
        /\ blockRes[j] = StageErr

\* ------------------------------------- is_available() and check() of a Call
\* Notify.0, the flag behind Call::notify.  poll_no_task polls the oneshot
\* with the Notify as the task's unpark handle: a poll that finds nothing
\* leaves that task registered in the channel (this is a poll that returned
\* NotReady), and the sender unparks the registered task when it completes
\* or is dropped.  Nothing ever stores false.  As long as block() has not
\* consumed the Call, poll_no_task is the only thing that registers a task.
NotifyFlag(j) == chan[j].done /\ NotReady \in Range(pollLog[j])

\* Call::is_available: true for Immediate, else notify.check()
is_available(st, flag) == IF st = "Immediate" THEN TRUE ELSE flag

\* Call::check: None (NoRes) for NotReady and Error::ResultTaken, else Some
check(r) == IF r = NotReady \/ r = ErrResultTaken THEN NoRes ELSE r

\* the caller still owns the Call: block(self) has not consumed it
Owned(j) == blockSt[j] = "no"

\* C21: whenever is_available() is true, a check() made right then returns
\* Some with the request's result: not None, and, when the guard did send a
\* value, that value and not an error of the channel.
C21_AvailableThenSome ==
    \A j \in CallJobs :
        (Owned(j) /\ is_available(callState[j], NotifyFlag(j))) =>
            /\ check(PollNow(j)) # NoRes
            /\ (callState[j] = "Immediate" => check(PollNow(j)) = immRes[j])
            /\ (sent[j] > 0 => check(PollNow(j)).kind \in Payload)

\* C22: is_available() is true whenever a result is there to be read: for
\* an Immediate Call, and for a queued Call whose guard has completed or
\* been dropped and whose result nobody has read yet, polled before or not.
C22_AvailableWhenReady ==
    \A j \in CallJobs :
        (Owned(j) /\ (callState[j] = "Immediate"
                        \/ (chan[j].done /\ Resolved(j) = {}))) =>
            is_available(callState[j], NotifyFlag(j))

\* the check() calls so far that returned Some
Somes(j) == {i \in 1..Len(pollLog[j]) : check(pollLog[j][i]) # NoRes}

\* C23: check() returns Some at most once per Call, and None only when the
\* result is not ready or was already taken: every check() after the one
\* that returned Some returns None.
C23_CheckSomeOnce ==
    \A j \in CallJobs :
        /\ Cardinality(Somes(j)) <= 1
        /\ \A i \in 1..Len(pollLog[j]) :
              check(pollLog[j][i]) = NoRes =>
                  \/ pollLog[j][i] = NotReady /\ Somes(j) \cap (1..i) = {}
                  \/ pollLog[j][i] = ErrResultTaken /\ Somes(j) \cap (1..i) # {}


\* ------------------------------------------------ exec_here() and exec()
\* the threads that invoked a stage of job j (0 is the caller)
StageThreads(j) == {stageLog[j][i][2] : i \in 1..Len(stageLog[j])}

\* how often job j is in the queue
Queued(j) == Cardinality({i \in 1..Len(queue) : queue[i] = j})

\* a step of the thread that called exec_here() of request j
HereStep(j) ==
    /\ rpc'[j] = "here"
    /\ \/ rpc[j] # "here"
       \/ stageLog'[j] # stageLog[j]
       \/ jobpc'[j] # jobpc[j]
       \/ blockSt'[j] # blockSt[j]

\* C24: exec_here() runs the job on the calling thread only, leaves the
\* queue as it is (no step of it pushes, pops, closes or wakes a worker)
\* and returns the result the job completed with; exec() pushes exactly one
\* job (none for an immediate request) and runs no stage on the caller.
C24_ExecHereFrame ==
    /\ [][\A j \in ReqJobs : HereStep(j) => UNCHANGED mpmcVars]_vars
    /\ [](\A j \in ReqJobs :
            rpc[j] = "here" =>
                /\ Queued(j) = 0 /\ recvd[j] = 0 /\ spc[j] = "idle"
                /\ StageThreads(j) \subseteq {0}
                /\ ranBy[j] \subseteq {<<0, 0>>}
                /\ (blockSt[j] = "returned" =>
                      /\ jobpc[j] \in {"none", "finished"}
                      /\ blockRes[j] = IF jobpc[j] = "none" THEN immRes[j]
                                       ELSE bodyRes[j]
                      /\ (jobpc[j] = "finished" => /\ runs[j] = 1
                                                   /\ bodyRes[j] # NoRes
                                                   /\ firstRes[j] = bodyRes[j])))
    /\ [](\A j \in ReqJobs :
            rpc[j] \in {"exec", "ignored"} =>
                /\ 0 \notin StageThreads(j)
                /\ <<0, 0>> \notin ranBy[j]
                /\ Queued(j) + recvd[j] = IF jobpc[j] = "none" THEN 0 ELSE 1)

\* exec_here() ran all five stages on the caller and returned Ok while the
\* job of another request, pushed by exec(), was still waiting in the queue
C24_Witness ==
    \E j \in ReqJobs : \E k \in ReqJobs :
        /\ rpc[j] = "here" /\ blockSt[j] = "returned"
        /\ blockRes[j] = OkRes(j)
        /\ Len(stageLog[j]) = Len(Stages) /\ StageThreads(j) = {0}
        /\ rpc[k] = "exec" /\ queue = <<k>>


\* ---------------------------------------------------- adapter.rs: Adapter
\* the allocation Arc::new / Arc::make_mut's clone gets
NewCell(ce) == CHOOSE c \in Cells : ce[c].rc = 0 /\ \A d \in Cells : ce[d].rc = 0 => c <= d

\* a make_mut that hands out the shared allocation without cloning it
make_mutShared(ad, ce, a) == [adp |-> ad, cell |-> ce]

\* Arc::make_mut(&mut self.inner): the allocation itself when this handle
\* is its only owner, else a clone of the Adapter_ (Adapter_::clone copies
\* the interceptor field) in a new allocation this handle then points to
make_mut(ad, ce, a) ==
    IF ce[ad[a]].rc = 1
    THEN [adp |-> ad, cell |-> ce]
    ELSE LET c == NewCell(ce)
         IN [adp |-> [ad EXCEPT ![a] = c],
             cell |-> [ce EXCEPT ![ad[a]].rc = @ - 1,
                                 ![c] = [rc |-> 1, icpt |-> ce[ad[a]].icpt]]]

\* the interceptor an Adapter handle uses: self.inner.interceptor
interceptor(a) == cell[adp[a]].icpt

\* Adapter::interceptor_mut followed by one InterceptorMut method that
\* stores f(current) into the field
interceptor_mut(a, new) ==
    /\ adp[a] # 0
    /\ Len(new.calls) <= MaxChain
    /\ LET m == make_mut(adp, cell, a)
       IN /\ adp' = m.adp
          /\ cell' = [m.cell EXCEPT ![m.adp[a]].icpt = new]
    /\ modified' = a
    /\ UNCHANGED <<callVars, jobVars, mpmcVars, singleVars, reqVars, wakeVars,
                   chainVars>>

\* Adapter::clone: inner.clone() adds an owner to the same allocation
AdapterClone(a, b) ==
    /\ adp[a] # 0
    /\ adp[b] = 0
    /\ adp' = [adp EXCEPT ![b] = adp[a]]
    /\ cell' = [cell EXCEPT ![adp[a]].rc = @ + 1]
    /\ modified' = 0
    /\ UNCHANGED <<callVars, jobVars, mpmcVars, singleVars, reqVars, wakeVars,
                   chainVars>>

\* an Adapter handle goes out of scope: the Arc loses an owner, the last
\* owner frees the allocation
AdapterDrop(a) ==
    /\ adp[a] # 0
    /\ \E b \in Handles : b # a /\ adp[b] # 0
    /\ adp' = [adp EXCEPT ![a] = 0]
    /\ cell' = [cell EXCEPT ![adp[a]] =
                   IF @.rc = 1 THEN FreeCell ELSE [@ EXCEPT !.rc = @ - 1]]
    /\ modified' = 0
    /\ UNCHANGED <<callVars, jobVars, mpmcVars, singleVars, reqVars, wakeVars,
                   chainVars>>

\* InterceptorMut::remove
IcptRemove(a) == adp[a] # 0 /\ interceptor_mut(a, remove)

\* InterceptorMut::set
IcptSet(a, i) == adp[a] # 0 /\ interceptor_mut(a, set(i))

\* InterceptorMut::chain_before
IcptChainBefore(a, before) ==
    /\ adp[a] # 0
    /\ interceptor_mut(a, chain_before(interceptor(a), before))

\* InterceptorMut::chain_after
IcptChainAfter(a, after) ==
    /\ adp[a] # 0
    /\ interceptor_mut(a, chain_after(interceptor(a), after))

\* InterceptorMut::chain_around
IcptChainAround(a, before, after) ==
    /\ adp[a] # 0
    /\ interceptor_mut(a, chain_around(interceptor(a), before, after))

\* AdapterBuilder::interceptor(i).build(), everything else untouched
InitAdapter ==
    /\ \E new \in [Jobs -> UNION {NewCalls(j) : j \in Jobs}] :
        /\ \A j \in Jobs : new[j] = BuiltCall
        /\ InitCallVars(new)
    /\ panics = [j \in Jobs |-> FALSE]
    /\ InitJobVars
    /\ InitMpmcVars
    /\ InitSingleVars
    /\ InitReqVars
    /\ \E i \in IcptArgs : BuiltAdapter(i)
    /\ InitWakeVars
    /\ InitChainVars

NextAdapter ==
    \/ \E a \in Handles : \E b \in Handles : AdapterClone(a, b)
    \/ \E a \in Handles : AdapterDrop(a)
    \/ \E a \in Handles : IcptRemove(a)
    \/ \E a \in Handles : \E i \in IcptArgs : IcptSet(a, i)
    \/ \E a \in Handles : \E i \in IcptArgs : IcptChainBefore(a, i)
    \/ \E a \in Handles : \E i \in IcptArgs : IcptChainAfter(a, i)
    \/ \E a \in Handles : \E i \in IcptArgs : \E k \in IcptArgs :
          IcptChainAround(a, i, k)

SpecAdapter == InitAdapter /\ [][NextAdapter]_vars

\* C25: a step that changes an adapter's interceptor through
\* interceptor_mut() (remove, set, chain_before, chain_after, chain_around)
\* leaves the interceptor of every other existing Adapter handle as it was,
\* and so do clone and drop, whatever clones and modifications came before.
C25_ClonesUnaffected ==
    [][\A b \in Handles :
          (adp[b] # 0 /\ adp'[b] # 0 /\ modified' # b) =>
              cell'[adp'[b]].icpt = cell[adp[b]].icpt]_vars

\* handle 1 was cloned with interceptor 1 and then chained interceptor 2
\* around it, in a new allocation; the clone still has the interceptor it
\* was cloned with
C25_Witness ==
    /\ modified = 1
    /\ interceptor(1) = Some(<<2, 1, 2>>)
    /\ adp[2] # 0 /\ adp[2] # adp[1]
    /\ interceptor(2) = Some(<<1>>)


\* ------------------------------------------------------- send never blocks
\* C26: Sender::send never blocks: a send() not yet begun can push and a
\* send() that pushed can notify in every state of the queue, whatever is
\* queued, whoever sleeps or holds the mutex, and whether or not the closed
\* flag is set; neither step waits for a receiver.
C26_SendNeverBlocks ==
    \A j \in Jobs :
        /\ spc[j] = "idle" => ENABLED SendPush(j)
        /\ spc[j] = "notify" => ENABLED SendNotify(j)

\* a send() completed and its job is still queued, another send() has not
\* begun, while one receiver sleeps, another holds the mutex, and the
\* closed flag is set
C26_Witness ==
    \E j \in Jobs : \E k \in Jobs :
        /\ spc[j] = "sent" /\ j \in Range(queue)
        /\ spc[k] = "idle"
        /\ mutex # 0
        /\ \E w \in Threads : wpc[w] = "parked"
        /\ closed


\* ------------------------------------------------- the Sentinel's respawns
\* the panicking jobs that were run in thread slot w
PanicsIn(w) == {j \in Jobs : panics[j] /\ \E t \in ranBy[j] : t[1] = w}

C28_WorkersTerminate ==
    /\ [][\A w \in Threads :
            wpc[w] = "exited" => (wpc'[w] = "exited" /\ gen'[w] = gen[w])]_vars
    /\ [](~ /\ dpc = "dropped"
            /\ queue = <<>>
            /\ \E w \in Threads : wpc[w] # "exited"
            /\ ~ ENABLED NextMpmcClose)


\* ------------------------------------------------ recv() at the queue's end
\* C29: recv() never returns None while a job sent before is still in the
\* queue: a worker ends its loop only with the queue empty, and so when all
\* workers have ended every job sent before the Sender's drop was received.
C29_NoneOnlyWhenDrained ==
    /\ [][\A w \in Threads :
            (wpc[w] # "exited" /\ wpc'[w] = "exited") => queue = <<>>]_vars
    /\ []((\A w \in Threads : wpc[w] = "exited") =>
            \A j \in Jobs : spc[j] = "sent" => recvd[j] = 1)


\* ------------------------------------------------------ spurious wakeups
\* Receiver::wait, line 55: cvar.wait returns although no notify_one or
\* notify_all was issued for this thread; it still takes the mutex again
SpuriousWake(w) ==
    /\ wpc[w] = "parked"
    /\ spurious < MaxSpurious
    /\ spurious' = spurious + 1
    /\ wpc' = [wpc EXCEPT ![w] = "woken"]
    /\ UNCHANGED <<queue, closed, mutex, wjob, gen, spc, dpc>>
    /\ UNCHANGED <<callVars, jobVars, singleVars, adapterVars, chainVars, reqVars>>

\* the queue with its Sender and workers, no job panics
InitSpurious ==
    /\ InitCallVars([j \in Jobs |-> BuiltCall])
    /\ panics = [j \in Jobs |-> FALSE]
    /\ InitJobVars
    /\ InitMpmcVars
    /\ InitSingleVars
    /\ InitReqVars
    /\ InitAdapterVars
    /\ InitWakeVars
    /\ InitChainVars

NextSpurious ==
    \/ \E j \in Jobs : SendWhileLive(j)
    \/ \E j \in Jobs : SendNotify(j)
    \/ SenderDropStore
    \/ SenderDropNotify
    \/ \E w \in Threads : RecvTryPop(w)
    \/ \E w \in Threads : RecvNotifyOne(w)
    \/ \E w \in Threads : RecvChkClosed(w)
    \/ \E w \in Threads : WaitLock(w)
    \/ \E w \in Threads : WaitPark(w)
    \/ \E w \in Threads : WaitRelock(w)
    \/ \E w \in Threads : WaitUnlock(w)
    \/ \E w \in Threads : SpuriousWake(w)
    \/ \E w \in Threads : ExecReturns(w)

SpecSpurious == InitSpurious /\ [][NextSpurious]_vars

\* worker w is inside recv()
InRecv(w) == wpc[w] \notin {"exec", "unwinding", "exited"}

\* C30: recv() is robust to wakeups nothing caused: after every wakeup it
\* checks the queue again, then the closed flag; it returns Some only with
\* a job it popped from the head of the queue, None only having read the
\* closed flag as set, and in every other case it goes back to sleep.
C30_RobustToSpuriousWakeups ==
    /\ [][\A w \in Threads :
            /\ (wpc[w] = "woken" => wpc'[w] \in {"woken", "unlock"})
            /\ (wpc[w] = "unlock" => wpc'[w] \in {"unlock", "try_pop"})
            /\ (wpc[w] = "try_pop" /\ wpc'[w] # "try_pop") =>
                  IF queue = <<>>
                  THEN wpc'[w] = "chk_closed" /\ wjob'[w] = 0
                  ELSE /\ wpc'[w] = "notify_one"
                       /\ wjob'[w] = Head(queue) /\ queue' = Tail(queue)
            /\ (wpc[w] = "chk_closed" /\ wpc'[w] # "chk_closed") =>
                  wpc'[w] = IF closed THEN "exited" ELSE "lock"
            /\ (wpc[w] = "lock" => wpc'[w] \in {"lock", "park"})
            /\ (wpc[w] = "park" => wpc'[w] \in {"park", "parked"})
            /\ (InRecv(w) /\ wpc'[w] = "exec") =>
                  wpc[w] = "notify_one" /\ wjob[w] # 0 /\ wjob'[w] = wjob[w]
            /\ (InRecv(w) /\ wpc'[w] = "exited") =>
                  wpc[w] = "chk_closed" /\ closed]_vars
    /\ [](\A w \in Threads : wpc[w] = "exec" => wjob[w] # 0)

\* a worker was woken although nothing was ever sent or closed, found the
\* queue empty and open, and every worker is asleep again
C30_Witness ==
    /\ spurious = 1
    /\ \A j \in Jobs : spc[j] = "idle"
    /\ dpc = "live"
    /\ \A w \in Threads : wpc[w] = "parked"


\* ------------------------------------------------- the loser of a respawn
\* C31: a submitter that found the respawning flag set returns from
\* respawn() only after the new Sender was published: when its read() of
\* the cell returns, the cell no longer holds the Sender of the channel its
\* send was refused by, so the Sender it clones next is not that dead one.
C31_LoserSeesNewSender ==
    /\ [][\A j \in Jobs :
            (epc[j] = "rlock" /\ epc'[j] = "sender") => cur # failedOn[j]]_vars
    /\ [][\A j \in Jobs :
            (epc[j] = "sender" /\ epc'[j] = "send" /\ retried[j]) =>
                has'[j] # failedOn[j]]_vars


\* ------------------------------------------------ the retry loop of execute
\* the places of job j in the buffers of the worker channels
Places(j) ==
    {p \in Chans \X (1..NJobs) : p[2] <= Len(chq[p[1]]) /\ chq[p[1]][p[2]] = j}

\* C32: the retry loop of execute neither duplicates nor discards the job:
\* until execute returns the job is in no channel and was received by no
\* worker (the caller holds it); the send that ends the loop puts it into
\* exactly one channel, one that has a Receiver; a refused send leaves it
\* in no channel, the dead one included; and from then on it is in one
\* place only: buffered once, received once, or dropped with its channel.
C32_RetryKeepsOneJob ==
    /\ [](\A j \in Jobs :
            IF epc[j] = "done"
            THEN Cardinality(Places(j)) + recvd[j]
                     + (IF lostTo[j] # 0 THEN 1 ELSE 0) = 1
            ELSE Places(j) = {} /\ recvd[j] = 0 /\ deliveredTo[j] = 0)
    /\ [][\A j \in Jobs :
            (epc[j] # "done" /\ epc'[j] = "done") =>
                /\ Places(j)' = {<<deliveredTo'[j], Len(chq'[deliveredTo'[j]])>>}
                /\ rx[deliveredTo'[j]] = "open"
                /\ deliveredTo'[j] = has[j]]_vars
    /\ [][\A j \in Jobs :
            (epc[j] = "send" /\ epc'[j] = "cas") =>
                /\ rx[has[j]] # "open"
                /\ chq' = chq
                /\ Places(j)' = {}]_vars

\* a send of job j was refused by the dead channel, a new channel was made,
\* execute returned, and the job waits in the new channel only
C32_Witness ==
    \E j \in Jobs :
        /\ retried[j] /\ epc[j] = "done"
        /\ failedOn[j] = 1 /\ deliveredTo[j] = 2
        /\ Places(j) = {<<2, 1>>}
        /\ swpc[1] = "dead"


\* ------------------------------------------------ a guard without a head
\* C33: a PanicGuard made by oneshot(None) that is dropped while it still
\* holds its Complete sends nothing: the drop stores no value and only
\* closes the channel; its Call is resolved all the same: every poll from
\* then on and block() return Error::Panic, never NotReady and no value.
C33_HeadlessDropResolves ==
    /\ [][\A j \in CallJobs :
            (guard[j].live /\ ~guard'[j].live
                /\ guard[j].head = 0 /\ guard[j].tx) =>
                /\ sent'[j] = sent[j]
                /\ chan'[j].data = chan[j].data
                /\ chan'[j].done]_vars
    /\ [](\A j \in CallJobs :
            (callState[j] = "Waiting" /\ ~guard[j].live /\ sent[j] = 0) =>
                /\ PollNow(j) = ErrPanic
                /\ \A i \in Resolved(j) : pollLog[j][i] = ErrPanic
                /\ (blockSt[j] = "returned" => blockRes[j] = ErrPanic))

\* the job of a Call made without a head panicked before complete(): the
\* poll before it found nothing, the poll after it got Error::Panic
C33_Witness ==
    \E j \in CallJobs :
        /\ jobpc[j] = "panicked"
        /\ panicHead[j] = 0
        /\ sent[j] = 0
        /\ pollLog[j] = <<NotReady, ErrPanic>>


\* ------------------------------------------ SpecIntercept: one interceptor
\* a call on the builder or on InterceptorMut: the field becomes `new`, the
\* declared order becomes `decl`
IcptCall(op, x, y, new, decl) ==
    /\ Len(new.calls) <= MaxChain
    /\ icur' = new
    /\ declared' = decl
    /\ lastOp' = [op |-> op, x |-> x, y |-> y]
    /\ icptLog' = <<>>
    /\ UNCHANGED built
    /\ UNCHANGED <<callVars, jobVars, mpmcVars, singleVars, reqVars,
                   adapterVars, wakeVars>>

\* AdapterBuilder::interceptor: replaces the builder's interceptor; build()
\* will store interceptor.into_opt_obj()
BuilderInterceptor(i) ==
    /\ ~built
    /\ IcptCall("interceptor", i, 0, into_opt_obj(i), Calls(i))

\* AdapterBuilder::chain_interceptor: self.interceptor.chain(next), a Chain
\* even when the builder held NoIntercept
BuilderChain(next) ==
    /\ ~built
    /\ IcptCall("chain", next, 0, chain(icur.calls, Calls(next)),
                declared \o Calls(next))

\* AdapterBuilder::build
BuilderBuild ==
    /\ ~built
    /\ built' = TRUE
    /\ lastOp' = [op |-> "build", x |-> 0, y |-> 0]
    /\ UNCHANGED <<icur, declared, icptLog>>
    /\ UNCHANGED <<callVars, jobVars, mpmcVars, singleVars, reqVars,
                   adapterVars, wakeVars>>

\* Adapter::interceptor_mut().remove()
MutRemove == built /\ IcptCall("remove", 0, 0, remove, <<>>)

\* Adapter::interceptor_mut().set(new)
MutSet(i) == built /\ IcptCall("set", i, 0, set(i), Calls(i))

\* Adapter::interceptor_mut().chain_before(before)
MutChainBefore(b) ==
    /\ built
    /\ IcptCall("chain_before", b, 0, chain_before(icur, b),
                Calls(b) \o declared)

\* Adapter::interceptor_mut().chain_after(after)
MutChainAfter(a) ==
    /\ built
    /\ IcptCall("chain_after", a, 0, chain_after(icur, a),
                declared \o Calls(a))

\* Adapter::interceptor_mut().chain_around(before, after)
MutChainAround(b, a) ==
    /\ built
    /\ IcptCall("chain_around", b, a, chain_around(icur, b, a),
                Calls(b) \o declared \o Calls(a))

\* ObjSafeAdapter::intercept for a request: if let Some(ref interceptor) =
\* self.inner.interceptor { interceptor.intercept(head) }
Intercept ==
    /\ built
    /\ icptLog' = IF icur.some THEN icur.calls ELSE <<>>
    /\ lastOp' = [op |-> "intercept", x |-> 0, y |-> 0]
    /\ UNCHANGED <<icur, built, declared>>
    /\ UNCHANGED <<callVars, jobVars, mpmcVars, singleVars, reqVars,
                   adapterVars, wakeVars>>

InitIntercept ==
    /\ InitCallVars([j \in Jobs |-> BuiltCall])
    /\ panics = [j \in Jobs |-> FALSE]
    /\ InitJobVars
    /\ InitMpmcVars
    /\ InitSingleVars
    /\ InitReqVars
    /\ InitAdapterVars
    /\ InitWakeVars
    /\ InitChainVars

NextIntercept ==
    \/ \E i \in IcptArgs : BuilderInterceptor(i)
    \/ \E i \in IcptArgs : BuilderChain(i)
    \/ BuilderBuild
    \/ MutRemove
    \/ \E i \in IcptArgs : MutSet(i)
    \/ \E i \in IcptArgs : MutChainBefore(i)
    \/ \E i \in IcptArgs : MutChainAfter(i)
    \/ \E i \in IcptArgs : \E k \in IcptArgs : MutChainAround(i, k)
    \/ Intercept

SpecIntercept == InitIntercept /\ [][NextIntercept]_vars

\* C34: interceptors run in declaration order: a request invokes exactly
\* the list the calls built (chain appends, chain_before prepends,
\* chain_after appends, chain_around puts one before and one after), and
\* on an adapter without interceptor chain_before(b), chain_after(a) and
\* chain_around(b, a) leave what set(b), set(a) and set(b.chain(a)) would.
C34_DeclarationOrder ==
    /\ [](lastOp.op = "intercept" => icptLog = declared)
    /\ [](icur.calls = declared)
    /\ [][(~icur.some /\ lastOp' # lastOp) =>
            /\ (lastOp'.op = "chain_before" => icur' = set(lastOp'.x))
            /\ (lastOp'.op = "chain_after" => icur' = set(lastOp'.x))
            /\ (lastOp'.op = "chain_around" =>
                    icur' = Some(Calls(lastOp'.x) \o Calls(lastOp'.y)))]_vars

\* the calls declared interceptor 2, then 1, then 2 again, and a request
\* of the built adapter invoked them in this order
C34_Witness ==
    /\ lastOp.op = "intercept"
    /\ declared = <<2, 1, 2>>
    /\ icptLog = <<2, 1, 2>>

====
